---- MODULE Spec2Model ----
(***************************************************************************)
(* Leaderless coordination on top of a totally ordered op log:            *)
(*   - AgentScheduler  (packages/runtime/agent-scheduler/src/scheduler.ts) *)
(*   - SummaryManager  (packages/runtime/container-runtime/src/            *)
(*                      summaryManager.ts)                                 *)
(* together with the collaborators they call (ordered log with quorum,     *)
(* consensus register collection, ordered client election, throttler).     *)
(***************************************************************************)
EXTENDS Integers, Sequences, FiniteSets, TLC

(***************************************************************************)
(* Bounds of the scheduler model.                                          *)
(***************************************************************************)
\* ops (joins, leaves, register writes) the ordering service sequences, or that wait
\* to be sequenced, in a run of a replica that reconnects and one that looks on
MaxOps == 7
\* the same, in a run of two replicas that both call the API
MaxSchedOps == 5
\* connections (client ids) one replica may open
MaxConn == 2
\* the same, in a run of the one replica whose API calls are recorded
MaxApiOps == 4

Replicas == {"A", "B"}
TaskOrder == <<"x", "y">>
Tasks == {TaskOrder[i] : i \in 1..Len(TaskOrder)}
Pos(t) == CHOOSE i \in 1..Len(TaskOrder) : TaskOrder[i] = t

\* register values / client ids are pairs, so that all of them compare
Client(r, i) == <<r, i>>
Null == <<"null", 0>>
Absent == <<"absent", 0>>
None == <<"none", 0>>

ClientIds == {Client(r, i) : r \in Replicas, i \in 1..MaxConn}

\* the workers a caller passes to pick, and the value of a key the map does not have
Workers == {"w1", "w2"}
NoWorker == "-"

VARIABLES
    seq,                  \* ops sequenced so far (the sequence number of the last op)
    log,                  \* the last ops of the log: those some connection has yet to process
    sreg,                 \* the register collection at the end of the log
    squorum,              \* the quorum at the end of the log
    cursor,               \* per replica: number of ops of log it has processed
    conn,                 \* per replica: client id of its open connection, or None
    connCount,            \* per replica: connections opened so far
    connected,            \* per replica: runtime.connected
    clientId,             \* per replica: runtime.clientId
    quorum,               \* per replica: runtime.getQuorum() members
    reg,                  \* per replica: consensusRegisterCollection (atomic value, version)
    outbox,               \* per replica: register writes submitted that did not get through
    registeredTasks,      \* per replica: AgentScheduler.registeredTasks
    locallyRunnableTasks, \* per replica: key set of AgentScheduler.locallyRunnableTasks
    worker,               \* per replica: the worker locallyRunnableTasks stores for each key
    runningTasks,         \* per replica: AgentScheduler.runningTasks
    observe,              \* whether calls and notifications are recorded in lastCall
                          \* (fixed in a run)
    budget,               \* the ops the service sequences in the run (fixed in a run)
    lastCall              \* the API call made by the last step and whether it threw, or
                          \* the notification the last step emitted

schedVars == <<seq, log, sreg, squorum, cursor, conn, connCount, connected, clientId, quorum,
               reg, outbox, registeredTasks, locallyRunnableTasks, worker, runningTasks,
               observe, budget, lastCall>>

(***************************************************************************)
(* Bounds of the summary manager and throttler models.                     *)
(***************************************************************************)
\* the clock advances in steps of TickMs, up to MaxTime
TickMs == 30000
MaxTime == 180000
\* getDelay calls inside one window that the throttler model follows
MaxAttempts == 12
\* start() calls inside one window that the summary manager model follows
MaxStarts == 2
\* clients that join the quorum of a summary manager
MaxJoins == 3
\* ops the summary collection passes on to a summary manager
MaxSeq == 6

VARIABLES
    state,                  \* SummaryManager.state
    prevState,              \* the value state had before it last changed
    smConnected,            \* SummaryManager.connected
    smClientId,             \* SummaryManager.clientId
    latestClientId,         \* SummaryManager.latestClientId
    electedClientId,        \* SummaryManager.electedClientId
    emitted,                \* the arguments of the "summarizer" events the last handler emitted
    runningSummarizer,      \* SummaryManager.runningSummarizer is defined
    disposed,               \* SummaryManager._disposed
    hasSummarizersInQuorum, \* SummaryManager.hasSummarizersInQuorum
    opsUntilFirstConnect,   \* SummaryManager.opsUntilFirstConnect
    summariesEnabled,       \* SummaryManager.summariesEnabled
    isSummarizerClient,     \* context.clientDetails.type === summarizerClientType
    members,                \* context.quorum: records [id, seq, summarizer]
    joined,                 \* the client ids that have joined the quorum so far
    usedIds,                \* the client ids the parent has connected with so far
    initialDelay,           \* initialDelayTimer: "pending", "timeout" or "cancel"
    awaitInitial,           \* createSummarizer: shouldInitialDelay of the pending creation
    stopCalls,              \* stop(reason) calls the running summarizer has received
    stopReason,             \* the reason of the last stop
    warnings,               \* context.raiseContainerWarning calls of start() so far
    hasLoggedTelemetry,     \* SummaryManager.hasLoggedTelemetry
    lastSummaryAckSeqForClient, \* SummaryManager.lastSummaryAckSeqForClient
    opSeq,                  \* sequence number of the last op of the summary collection
    diagnostics,            \* "ElectedClientNotSummarizing" events sent since the last
                            \* summary ack or change of the elected client
    now,                    \* Date.now() at the last getDelay
    windowStart,            \* Throttler: start of the current window
    attempts,               \* Throttler: attempts in the current window
    lastDelay,              \* the delay the last getDelay returned
    calls                   \* getDelay calls so far

throttleVars == <<now, windowStart, attempts, lastDelay, calls>>

telemVars == <<hasLoggedTelemetry, lastSummaryAckSeqForClient, opSeq, diagnostics>>

smVars == <<state, prevState, smConnected, smClientId, latestClientId, electedClientId,
            emitted,
            runningSummarizer, disposed, hasSummarizersInQuorum, opsUntilFirstConnect,
            summariesEnabled, isSummarizerClient, members, joined, usedIds, initialDelay,
            awaitInitial, stopCalls, stopReason, warnings, hasLoggedTelemetry,
            lastSummaryAckSeqForClient, opSeq, diagnostics>>

vars == <<schedVars, smVars, throttleVars>>

(***************************************************************************)
(* The ordered log, the quorum and the register collection.                *)
(*                                                                         *)
(* A register write carries what its writer had seen of the key when it    *)
(* created the write (the reference sequence number of the op): here the   *)
(* number of accepted writes of the key, its version.  The ops all open    *)
(* connections have processed are dropped from log; a replica that         *)
(* reconnects processes the ops it missed (its handlers are inactive       *)
(* then) in one step, at the time its join is sequenced.                   *)
(***************************************************************************)
JoinOp(c) == [type |-> "join", client |-> c, from |-> c[1], key |-> "-", value |-> None,
              seen |-> 0, win |-> FALSE, ver |-> 0]
LeaveOp(c) == [type |-> "leave", client |-> c, from |-> c[1], key |-> "-", value |-> None,
               seen |-> 0, win |-> FALSE, ver |-> 0]

\* a register write as submitted
Write(k, v, seen) == [key |-> k, value |-> v, seen |-> seen]

\* faulty register collection: the last write sequenced wins
IsWinnerLastWriter(entry, seen) == TRUE

\* a sequenced write becomes the atomic value iff the key is new or the writer had
\* seen the current atomic value (the write was not concurrent): first accepted wins
IsWinner(entry, seen) == entry.v = Absent \/ seen >= entry.ver

\* the sequenced write w of replica r: whether it is accepted, and the version of the
\* key after it
WriteOp(w, r, entry) ==
    [type |-> "write", client |-> None, from |-> r, key |-> w.key, value |-> w.value,
     seen |-> w.seen, win |-> IsWinner(entry, w.seen),
     ver |-> IF IsWinner(entry, w.seen) THEN entry.ver + 1 ELSE entry.ver]

\* the register after the service has sequenced write w
Accept(sr, w) ==
    IF IsWinner(sr[w.key], w.seen)
    THEN [sr EXCEPT ![w.key] = [v |-> w.value, ver |-> @.ver + 1]]
    ELSE sr

RECURSIVE AcceptAll(_, _)
AcceptAll(sr, ws) == IF ws = <<>> THEN sr ELSE AcceptAll(Accept(sr, Head(ws)), Tail(ws))

RECURSIVE WriteOps(_, _, _)
WriteOps(sr, ws, r) ==
    IF ws = <<>> THEN <<>>
    ELSE <<WriteOp(Head(ws), r, sr[Head(ws).key])>>
         \o WriteOps(Accept(sr, Head(ws)), Tail(ws), r)

\* connections closed at the client whose leave the service has not sequenced yet
PendingLeaves == {c \in squorum : \A r \in Replicas : conn[r] # c}

RECURSIVE SumLen(_, _)
SumLen(f, S) ==
    IF S = {} THEN 0
    ELSE LET r == CHOOSE x \in S : TRUE IN Len(f[r]) + SumLen(f, S \ {r})

Min(S) == CHOOSE x \in S : \A y \in S : x <= y

\* log, cursor and conn after a step: the ops every open connection has processed
\* are dropped
Commit(lg, cur, cn) ==
    LET live == {r \in Replicas : cn[r] # None}
        m == IF live = {} THEN Len(lg) ELSE Min({cur[r] : r \in live})
    IN /\ log' = SubSeq(lg, m + 1, Len(lg))
       /\ cursor' = [r \in Replicas |-> IF r \in live THEN cur[r] - m ELSE 0]
       /\ conn' = cn

(***************************************************************************)
(* AgentScheduler                                                          *)
(***************************************************************************)
\* scheduler.ts isActive(): attached replicas are active iff connected (write mode)
IsActive(r) == connected[r]

getTaskClientId(r, t) == reg[r][t].v

OrderedTasks(S) == SelectSeq(TaskOrder, LAMBDA t : t \in S)

RECURSIVE MapWrites(_, _, _)
MapWrites(ts, v, regv) ==
    IF ts = <<>> THEN <<>>
    ELSE <<Write(Head(ts), v, regv[Head(ts)].ver)>> \o MapWrites(Tail(ts), v, regv)

\* faulty initializeCore: the entries of clients that are not in the quorum are left
\* as they are
initializeCoreKeepsOrphans(lr, regv, q, cid) ==
    MapWrites(OrderedTasks({t \in lr : regv[t].v \in {Absent, Null}}), cid, regv)

\* initializeCore(): claim every wanted task that is absent or unclaimed, then clear
\* every entry owned by a client that is not in the quorum
initializeCore(lr, regv, q, cid) ==
    MapWrites(OrderedTasks({t \in lr : regv[t].v \in {Absent, Null}}), cid, regv)
    \o MapWrites(OrderedTasks({t \in Tasks : regv[t].v \notin {Absent, Null}
                                             /\ regv[t].v \notin q}), Null, regv)

\* faulty removeMember handler: entries of the leaving client nobody here wants are
\* left as they are
removeMemberKeepsUnwanted(r, c) ==
    IF IsActive(r)
    THEN MapWrites(OrderedTasks({t \in Tasks : getTaskClientId(r, t) = c
                                     /\ t \in locallyRunnableTasks[r]}), clientId[r], reg[r])
    ELSE <<>>

\* faulty removeMember handler: every entry of the leaving client is cleared, wanted
\* or not
removeMemberClearsAll(r, c) ==
    IF IsActive(r)
    THEN MapWrites(OrderedTasks({t \in Tasks : getTaskClientId(r, t) = c}), Null, reg[r])
    ELSE <<>>

\* quorum.on("removeMember"): claim or clear every entry the leaving client owned
removeMember(r, c) ==
    IF IsActive(r)
    THEN MapWrites(OrderedTasks({t \in Tasks : getTaskClientId(r, t) = c
                                     /\ t \in locallyRunnableTasks[r]}), clientId[r], reg[r])
         \o MapWrites(OrderedTasks({t \in Tasks : getTaskClientId(r, t) = c
                                     /\ t \notin locallyRunnableTasks[r]}), Null, reg[r])
    ELSE <<>>

\* onNewTaskAssigned(key): the assert throws when the task is already running
onNewTaskAssigned(r, key) ==
    IF key \in runningTasks[r] THEN runningTasks[r] ELSE runningTasks[r] \cup {key}

\* faulty onTaskReassigned: the task stays in runningTasks
stopRunningKeeps(r, key) == runningTasks[r]

\* onTaskReassigned(key, currentClient): a running task is no longer run
stopRunning(r, key) == runningTasks[r] \ {key}

\* faulty onTaskReassigned: an unclaimed task the replica wants is not claimed
onTaskReassignedNoClaim(r, key, currentClient, ver) ==
    IF IsActive(r) /\ currentClient # Null /\ currentClient \notin quorum[r]
    THEN <<Write(key, Null, ver)>> ELSE <<>>

\* faulty onTaskReassigned: a task whose new owner is not in the quorum is claimed at
\* once by a replica that wants it
onTaskReassignedClaimsFromAbsent(r, key, currentClient, ver) ==
    IF IsActive(r)
    THEN IF currentClient = Null \/ currentClient \notin quorum[r]
         THEN IF key \in locallyRunnableTasks[r]
              THEN <<Write(key, clientId[r], ver)>>
              ELSE IF currentClient = Null THEN <<>> ELSE <<Write(key, Null, ver)>>
         ELSE <<>>
    ELSE <<>>

\* faulty onTaskReassigned: an unclaimed task is claimed whether the replica wants it
\* or not
onTaskReassignedClaimsUnwanted(r, key, currentClient, ver) ==
    IF IsActive(r)
    THEN IF currentClient = Null
         THEN <<Write(key, clientId[r], ver)>>
         ELSE IF currentClient \notin quorum[r] THEN <<Write(key, Null, ver)>> ELSE <<>>
    ELSE <<>>

\* onTaskReassigned(key, currentClient): the writes it issues, having seen version ver
onTaskReassigned(r, key, currentClient, ver) ==
    IF IsActive(r)
    THEN IF currentClient = Null
         THEN IF key \in locallyRunnableTasks[r]
              THEN <<Write(key, clientId[r], ver)>> ELSE <<>>
         ELSE IF currentClient \notin quorum[r] THEN <<Write(key, Null, ver)>> ELSE <<>>
    ELSE <<>>

\* faulty atomicChanged handler: any owner counts as this replica
IsChosenAnyOwner(r, currentClient) == IsActive(r) /\ currentClient # Null

\* consensusRegisterCollection.on("atomicChanged"): is this replica the chosen one
IsChosen(r, currentClient) == IsActive(r) /\ currentClient = clientId[r]

NoCall == [op |-> "none", r |-> "-", ids |-> {}, threw |-> FALSE]
Call(op, r, ids, threw) ==
    IF observe THEN [op |-> op, r |-> r, ids |-> ids, threw |-> threw] ELSE NoCall

\* onNewTaskAssigned(key): unless the assert throws, the worker of the task is called
\* once and "picked" is emitted, or, the replica having no worker for the task, the
\* error "AgentScheduler_UnwantedChange" is logged
picked(r, key) ==
    IF key \in runningTasks[r] THEN Call("assert", r, {key}, TRUE)
    ELSE IF key \in locallyRunnableTasks[r] THEN Call("picked", r, {key}, FALSE)
    ELSE Call("unwanted", r, {key}, FALSE)

\* faulty onTaskReassigned: "released" is emitted whether the task was running or not
releasedAlways(r, key) == Call("released", r, {key}, FALSE)

\* onTaskReassigned(key, currentClient): "released" is emitted for a running task
released(r, key) ==
    IF key \in runningTasks[r] THEN Call("released", r, {key}, FALSE) ELSE NoCall

SchedInit ==
    /\ seq = 0
    /\ log = <<>>
    /\ sreg = [t \in Tasks |-> [v |-> Absent, ver |-> 0]]
    /\ squorum = {}
    /\ cursor = [r \in Replicas |-> 0]
    /\ conn = [r \in Replicas |-> None]
    /\ connCount = [r \in Replicas |-> 0]
    /\ connected = [r \in Replicas |-> FALSE]
    /\ clientId = [r \in Replicas |-> None]
    /\ quorum = [r \in Replicas |-> {}]
    /\ reg = [r \in Replicas |-> [t \in Tasks |-> [v |-> Absent, ver |-> 0]]]
    /\ outbox = [r \in Replicas |-> <<>>]
    /\ registeredTasks = [r \in Replicas |-> {}]
    /\ locallyRunnableTasks = [r \in Replicas |-> {}]
    /\ worker = [r \in Replicas |-> [t \in Tasks |-> NoWorker]]
    /\ runningTasks = [r \in Replicas |-> {}]
    /\ lastCall = NoCall
    /\ observe = FALSE
    /\ budget = MaxSchedOps

\* The replica submits the writes ws behind the unacknowledged writes pre, having
\* processed cur. A write submitted on a live connection with nothing ahead of it is
\* sequenced at once (any later sequencing point is the same run with the write
\* created later); a write that does not get through (the connection is failing, or
\* the replica is offline) stays in the outbox until it is resubmitted, as it was
\* created, on the next connection.
Submit(r, live, pre, ws, cur) ==
    LET most == IF live /\ pre = <<>> THEN Len(ws) ELSE 0
        least == IF connCount[r] < MaxConn THEN 0 ELSE most
    IN \E k \in least..most :
          /\ seq + SumLen(outbox, Replicas \ {r}) + Len(pre) + Len(ws) <= budget
          /\ seq' = seq + k
          /\ sreg' = AcceptAll(sreg, SubSeq(ws, 1, k))
          /\ outbox' = [outbox EXCEPT ![r] = pre \o SubSeq(ws, k + 1, Len(ws))]
          /\ Commit(log \o WriteOps(sreg, SubSeq(ws, 1, k), r), cur, conn)

\* the replica opens a connection and the service sequences its join; the replica
\* processes the ops it missed
Connect(r) ==
    /\ lastCall' = NoCall
    /\ conn[r] = None
    /\ connCount[r] < MaxConn
    /\ seq + SumLen(outbox, Replicas) < budget
    /\ seq' = seq + 1
    /\ connCount' = [connCount EXCEPT ![r] = @ + 1]
    /\ squorum' = squorum \cup {Client(r, connCount[r] + 1)}
    /\ quorum' = [quorum EXCEPT ![r] = squorum]
    /\ reg' = [reg EXCEPT ![r] = sreg]
    /\ Commit(Append(log, JoinOp(Client(r, connCount[r] + 1))),
              [cursor EXCEPT ![r] = Len(log)],
              [conn EXCEPT ![r] = Client(r, connCount[r] + 1)])
    /\ UNCHANGED <<sreg, connected, clientId, outbox,
                   registeredTasks, locallyRunnableTasks, worker, runningTasks, observe,
                   budget>>

\* faulty clearRunningTasks: no "lost" notification is emitted
lostSilently(r) == NoCall

\* clearRunningTasks(): one "lost" notification for each task that was running
lost(r) == IF runningTasks[r] = {} THEN NoCall ELSE Call("lost", r, runningTasks[r], FALSE)

\* faulty "disconnected" handler: the running tasks are not cleared
DisconnectKeepsRunning(r) ==
    /\ lastCall' = NoCall
    /\ conn[r] # None
    /\ connected' = [connected EXCEPT ![r] = FALSE]
    /\ Commit(log, cursor, [conn EXCEPT ![r] = None])
    /\ UNCHANGED <<seq, sreg, squorum, connCount, clientId, quorum, reg, outbox,
                   registeredTasks, locallyRunnableTasks, worker, runningTasks, observe,
                   budget>>

\* runtime.on("disconnected"): clearRunningTasks() of an attached replica
Disconnect(r) ==
    /\ lastCall' = lost(r)
    /\ conn[r] # None
    /\ connected' = [connected EXCEPT ![r] = FALSE]
    /\ runningTasks' = [runningTasks EXCEPT ![r] = {}]
    /\ Commit(log, cursor, [conn EXCEPT ![r] = None])
    /\ UNCHANGED <<seq, sreg, squorum, connCount, clientId, quorum, reg, outbox,
                   registeredTasks, locallyRunnableTasks, worker, observe, budget>>

\* the service sequences the leave of a closed connection
Leave(c) ==
    /\ lastCall' = NoCall
    /\ c \in PendingLeaves
    /\ seq + SumLen(outbox, Replicas) < budget
    /\ seq' = seq + 1
    /\ squorum' = squorum \ {c}
    /\ Commit(Append(log, LeaveOp(c)), cursor, conn)
    /\ UNCHANGED <<sreg, connCount, connected, clientId, quorum, reg, outbox,
                   registeredTasks, locallyRunnableTasks, worker, runningTasks, observe,
                   budget>>

\* the replica processes a join; its own join makes it "connected": the pending
\* writes are resubmitted, then initializeCore() runs
DeliverJoin(r, op, cur) ==
    /\ quorum' = [quorum EXCEPT ![r] = @ \cup {op.client}]
    /\ IF op.client = conn[r]
       THEN /\ connected' = [connected EXCEPT ![r] = TRUE]
            /\ clientId' = [clientId EXCEPT ![r] = op.client]
            /\ Submit(r, TRUE, <<>>,
                      outbox[r] \o initializeCore(locallyRunnableTasks[r], reg[r],
                                                  quorum[r] \cup {op.client}, op.client),
                      cur)
       ELSE /\ Commit(log, cur, conn)
            /\ UNCHANGED <<connected, clientId, outbox, seq, sreg>>
    /\ lastCall' = NoCall
    /\ UNCHANGED <<reg, runningTasks>>

DeliverLeave(r, op, cur) ==
    /\ lastCall' = NoCall
    /\ quorum' = [quorum EXCEPT ![r] = @ \ {op.client}]
    /\ Submit(r, connected[r], outbox[r], removeMember(r, op.client), cur)
    /\ UNCHANGED <<connected, clientId, reg, runningTasks>>

DeliverWrite(r, op, cur) ==
    IF op.win
    THEN /\ reg' = [reg EXCEPT ![r][op.key] = [v |-> op.value, ver |-> @.ver + 1]]
         /\ IF IsChosen(r, op.value)
            THEN /\ runningTasks' = [runningTasks EXCEPT ![r] = onNewTaskAssigned(r, op.key)]
                 /\ lastCall' = picked(r, op.key)
                 /\ Commit(log, cur, conn)
                 /\ UNCHANGED <<outbox, seq, sreg>>
            ELSE /\ runningTasks' = [runningTasks EXCEPT ![r] = stopRunning(r, op.key)]
                 /\ lastCall' = released(r, op.key)
                 /\ Submit(r, connected[r], outbox[r],
                           onTaskReassigned(r, op.key, op.value, reg[r][op.key].ver + 1), cur)
         /\ UNCHANGED <<connected, clientId, quorum>>
    ELSE /\ Commit(log, cur, conn)
         /\ lastCall' = NoCall
         /\ UNCHANGED <<connected, clientId, quorum, reg, runningTasks, outbox, seq, sreg>>

\* a replica with an open connection processes the next op of the log
Deliver(r) ==
    /\ conn[r] # None
    /\ cursor[r] < Len(log)
    /\ LET op == log[cursor[r] + 1]
           cur == [cursor EXCEPT ![r] = @ + 1]
       IN  CASE op.type = "join" -> DeliverJoin(r, op, cur)
             [] op.type = "leave" -> DeliverLeave(r, op, cur)
             [] OTHER -> DeliverWrite(r, op, cur)
    /\ UNCHANGED <<squorum, connCount, registeredTasks, locallyRunnableTasks, worker,
                   observe, budget>>

\* a call that throws changes nothing
Throws(op, r, ids) ==
    /\ lastCall' = Call(op, r, ids, TRUE)
    /\ UNCHANGED <<seq, log, sreg, squorum, cursor, conn, connCount, connected, clientId,
                   quorum, reg, outbox, registeredTasks, locallyRunnableTasks, worker,
                   runningTasks, observe, budget>>

\* faulty register: ids are added while the check runs, so the ids ahead of the first
\* registered one have been added when it throws
RegisterChecksWhileAdding(r, ids) ==
    IF ids \cap registeredTasks[r] # {}
    THEN /\ lastCall' = Call("register", r, ids, TRUE)
         /\ registeredTasks' = [registeredTasks EXCEPT ![r] = @ \cup
               {t \in ids : \A u \in ids \cap registeredTasks[r] : Pos(t) < Pos(u)}]
         /\ UNCHANGED <<seq, log, sreg, squorum, cursor, conn, connCount, connected,
                        clientId, quorum, reg, outbox, locallyRunnableTasks, worker,
                        runningTasks, observe, budget>>
    ELSE /\ lastCall' = Call("register", r, ids, FALSE)
         /\ registeredTasks' = [registeredTasks EXCEPT ![r] = @ \cup ids]
         /\ Submit(r, connected[r], outbox[r],
                   MapWrites(OrderedTasks({t \in ids : getTaskClientId(r, t) = Absent}),
                             Null, reg[r]), cursor)
         /\ UNCHANGED <<squorum, connCount, connected, clientId, quorum, reg,
                        locallyRunnableTasks, worker, runningTasks, observe, budget>>

\* faulty register: the unclaimed marker is written for every id of the call
RegisterWritesAll(r, ids) ==
    IF ids \cap registeredTasks[r] # {}
    THEN Throws("register", r, ids)
    ELSE /\ lastCall' = Call("register", r, ids, FALSE)
         /\ registeredTasks' = [registeredTasks EXCEPT ![r] = @ \cup ids]
         /\ Submit(r, connected[r], outbox[r], MapWrites(OrderedTasks(ids), Null, reg[r]),
                   cursor)
         /\ UNCHANGED <<squorum, connCount, connected, clientId, quorum, reg,
                        locallyRunnableTasks, worker, runningTasks, observe, budget>>

\* register(...taskUrls)
Register(r, ids) ==
    IF ids \cap registeredTasks[r] # {}
    THEN Throws("register", r, ids)
    ELSE /\ lastCall' = Call("register", r, ids, FALSE)
         /\ registeredTasks' = [registeredTasks EXCEPT ![r] = @ \cup ids]
         /\ Submit(r, connected[r], outbox[r],
                   MapWrites(OrderedTasks({t \in ids : getTaskClientId(r, t) = Absent}),
                             Null, reg[r]), cursor)
         /\ UNCHANGED <<squorum, connCount, connected, clientId, quorum, reg,
                        locallyRunnableTasks, worker, runningTasks, observe, budget>>

\* faulty pick: the worker is stored before the check throws
PickStoresBeforeCheck(r, t, w) ==
    IF t \in locallyRunnableTasks[r]
    THEN /\ lastCall' = Call("pick", r, {t}, TRUE)
         /\ worker' = [worker EXCEPT ![r][t] = w]
         /\ UNCHANGED <<seq, log, sreg, squorum, cursor, conn, connCount, connected,
                        clientId, quorum, reg, outbox, registeredTasks,
                        locallyRunnableTasks, runningTasks, observe, budget>>
    ELSE /\ lastCall' = Call("pick", r, {t}, FALSE)
         /\ locallyRunnableTasks' = [locallyRunnableTasks EXCEPT ![r] = @ \cup {t}]
         /\ worker' = [worker EXCEPT ![r][t] = w]
         /\ Submit(r, connected[r], outbox[r],
                   IF IsActive(r) /\ getTaskClientId(r, t) \in {Absent, Null}
                   THEN <<Write(t, clientId[r], reg[r][t].ver)>> ELSE <<>>, cursor)
         /\ UNCHANGED <<squorum, connCount, connected, clientId, quorum, reg,
                        registeredTasks, runningTasks, observe, budget>>

\* faulty pick: a task the replica claims is run at once
PickRunsAtOnce(r, t, w) ==
    IF t \in locallyRunnableTasks[r]
    THEN Throws("pick", r, {t})
    ELSE /\ lastCall' = Call("pick", r, {t}, FALSE)
         /\ locallyRunnableTasks' = [locallyRunnableTasks EXCEPT ![r] = @ \cup {t}]
         /\ worker' = [worker EXCEPT ![r][t] = w]
         /\ runningTasks' = [runningTasks EXCEPT ![r] =
               IF IsActive(r) /\ getTaskClientId(r, t) \in {Absent, Null}
               THEN @ \cup {t} ELSE @]
         /\ Submit(r, connected[r], outbox[r],
                   IF IsActive(r) /\ getTaskClientId(r, t) \in {Absent, Null}
                   THEN <<Write(t, clientId[r], reg[r][t].ver)>> ELSE <<>>, cursor)
         /\ UNCHANGED <<squorum, connCount, connected, clientId, quorum, reg,
                        registeredTasks, observe, budget>>

\* faulty pick: the task is claimed whoever owns it
PickTakesOver(r, t, w) ==
    IF t \in locallyRunnableTasks[r]
    THEN Throws("pick", r, {t})
    ELSE /\ lastCall' = Call("pick", r, {t}, FALSE)
         /\ locallyRunnableTasks' = [locallyRunnableTasks EXCEPT ![r] = @ \cup {t}]
         /\ worker' = [worker EXCEPT ![r][t] = w]
         /\ Submit(r, connected[r], outbox[r],
                   IF IsActive(r) /\ getTaskClientId(r, t) # clientId[r]
                   THEN <<Write(t, clientId[r], reg[r][t].ver)>> ELSE <<>>, cursor)
         /\ UNCHANGED <<squorum, connCount, connected, clientId, quorum, reg,
                        registeredTasks, runningTasks, observe, budget>>

\* pick(taskId, worker)
Pick(r, t, w) ==
    IF t \in locallyRunnableTasks[r]
    THEN Throws("pick", r, {t})
    ELSE /\ lastCall' = Call("pick", r, {t}, FALSE)
         /\ locallyRunnableTasks' = [locallyRunnableTasks EXCEPT ![r] = @ \cup {t}]
         /\ worker' = [worker EXCEPT ![r][t] = w]
         /\ Submit(r, connected[r], outbox[r],
                   IF IsActive(r) /\ getTaskClientId(r, t) \in {Absent, Null}
                   THEN <<Write(t, clientId[r], reg[r][t].ver)>> ELSE <<>>, cursor)
         /\ UNCHANGED <<squorum, connCount, connected, clientId, quorum, reg,
                        registeredTasks, runningTasks, observe, budget>>

\* faulty release: ids are released while the check runs, so the ids ahead of the
\* first one that fails the check have been removed when it throws
ReleaseChecksWhileReleasing(r, ids) ==
    IF \E t \in ids : \/ t \notin locallyRunnableTasks[r]
                      \/ ~IsActive(r)
                      \/ getTaskClientId(r, t) # clientId[r]
    THEN /\ lastCall' = Call("release", r, ids, TRUE)
         /\ locallyRunnableTasks' = [locallyRunnableTasks EXCEPT ![r] = @ \
               {t \in ids : \A u \in ids :
                   (u \notin locallyRunnableTasks[r] \/ ~IsActive(r)
                       \/ getTaskClientId(r, u) # clientId[r]) => Pos(t) < Pos(u)}]
         /\ UNCHANGED <<seq, log, sreg, squorum, cursor, conn, connCount, connected,
                        clientId, quorum, reg, outbox, registeredTasks, worker,
                        runningTasks, observe, budget>>
    ELSE /\ lastCall' = Call("release", r, ids, FALSE)
         /\ locallyRunnableTasks' = [locallyRunnableTasks EXCEPT ![r] = @ \ ids]
         /\ worker' = [worker EXCEPT ![r] = [t \in Tasks |-> IF t \in ids THEN NoWorker
                                                                ELSE @[t]]]
         /\ Submit(r, connected[r], outbox[r], MapWrites(OrderedTasks(ids), Null, reg[r]),
                   cursor)
         /\ UNCHANGED <<squorum, connCount, connected, clientId, quorum, reg,
                        registeredTasks, runningTasks, observe, budget>>

\* release(...taskUrls)
Release(r, ids) ==
    IF \E t \in ids : \/ t \notin locallyRunnableTasks[r]
                      \/ ~IsActive(r)
                      \/ getTaskClientId(r, t) # clientId[r]
    THEN Throws("release", r, ids)
    ELSE /\ lastCall' = Call("release", r, ids, FALSE)
         /\ locallyRunnableTasks' = [locallyRunnableTasks EXCEPT ![r] = @ \ ids]
         /\ worker' = [worker EXCEPT ![r] = [t \in Tasks |-> IF t \in ids THEN NoWorker
                                                                ELSE @[t]]]
         /\ Submit(r, connected[r], outbox[r], MapWrites(OrderedTasks(ids), Null, reg[r]),
                   cursor)
         /\ UNCHANGED <<squorum, connCount, connected, clientId, quorum, reg,
                        registeredTasks, runningTasks, observe, budget>>

\* faulty rejection handler of the worker: the task is no longer run
WorkerFailsStopsTask(r, t) ==
    /\ t \in runningTasks[r]
    /\ t \in locallyRunnableTasks[r]
    /\ lastCall' = Call("failedWork", r, {t}, FALSE)
    /\ runningTasks' = [runningTasks EXCEPT ![r] = @ \ {t}]
    /\ UNCHANGED <<seq, log, sreg, squorum, cursor, conn, connCount, connected, clientId,
                   quorum, reg, outbox, registeredTasks, locallyRunnableTasks, worker,
                   observe, budget>>

\* the promise of the worker of a task the replica runs rejects: the error
\* "AgentScheduler_FailedWork" is logged
WorkerFails(r, t) ==
    /\ t \in runningTasks[r]
    /\ t \in locallyRunnableTasks[r]
    /\ lastCall' = Call("failedWork", r, {t}, FALSE)
    /\ UNCHANGED <<seq, log, sreg, squorum, cursor, conn, connCount, connected, clientId,
                   quorum, reg, outbox, registeredTasks, locallyRunnableTasks, worker,
                   runningTasks, observe, budget>>

\* the tasks two replicas compete for
RaceTasks == {"x"}

SchedNext ==
    \/ \E r \in Replicas : Connect(r) /\ UNCHANGED <<smVars, throttleVars>>
    \/ \E r \in Replicas : Disconnect(r) /\ UNCHANGED <<smVars, throttleVars>>
    \/ \E c \in ClientIds : Leave(c) /\ UNCHANGED <<smVars, throttleVars>>
    \/ \E r \in Replicas : Deliver(r) /\ UNCHANGED <<smVars, throttleVars>>
    \/ \E r \in Replicas : \E ids \in (SUBSET RaceTasks) \ {{}} :
          Register(r, ids) /\ UNCHANGED <<smVars, throttleVars>>
    \/ \E r \in Replicas : \E t \in RaceTasks :
          Pick(r, t, "w1") /\ UNCHANGED <<smVars, throttleVars>>
    \/ \E r \in Replicas : \E ids \in (SUBSET RaceTasks) \ {{}} :
          Release(r, ids) /\ UNCHANGED <<smVars, throttleVars>>

\* A replica that picks a task over a failing connection and connects again, and a
\* replica that looks on.
Observer == "B"

ReactInit ==
    /\ seq = 0
    /\ log = <<>>
    /\ sreg = [t \in Tasks |-> [v |-> Absent, ver |-> 0]]
    /\ squorum = {}
    /\ cursor = [r \in Replicas |-> 0]
    /\ conn = [r \in Replicas |-> None]
    /\ connCount = [r \in Replicas |-> 0]
    /\ connected = [r \in Replicas |-> FALSE]
    /\ clientId = [r \in Replicas |-> None]
    /\ quorum = [r \in Replicas |-> {}]
    /\ reg = [r \in Replicas |-> [t \in Tasks |-> [v |-> Absent, ver |-> 0]]]
    /\ outbox = [r \in Replicas |-> <<>>]
    /\ registeredTasks = [r \in Replicas |-> {}]
    /\ locallyRunnableTasks = [r \in Replicas |-> {}]
    /\ worker = [r \in Replicas |-> [t \in Tasks |-> NoWorker]]
    /\ runningTasks = [r \in Replicas |-> {}]
    /\ lastCall = NoCall
    /\ observe = FALSE
    /\ budget = MaxOps

ReactNext ==
    \/ \E r \in Replicas : Connect(r) /\ UNCHANGED <<smVars, throttleVars>>
    \/ \E r \in Replicas \ {Observer} :
          Disconnect(r) /\ UNCHANGED <<smVars, throttleVars>>
    \/ \E c \in ClientIds : Leave(c) /\ UNCHANGED <<smVars, throttleVars>>
    \/ \E r \in Replicas : Deliver(r) /\ UNCHANGED <<smVars, throttleVars>>
    \/ \E r \in Replicas \ {Observer} : \E t \in RaceTasks :
          Pick(r, t, "w1") /\ UNCHANGED <<smVars, throttleVars>>

\* One replica on its own, calling the API over all the tasks, with every call
\* recorded, failing calls included.
Caller == "A"

ApiInit ==
    /\ seq = 0
    /\ log = <<>>
    /\ sreg = [t \in Tasks |-> [v |-> Absent, ver |-> 0]]
    /\ squorum = {}
    /\ cursor = [r \in Replicas |-> 0]
    /\ conn = [r \in Replicas |-> None]
    /\ connCount = [r \in Replicas |-> 0]
    /\ connected = [r \in Replicas |-> FALSE]
    /\ clientId = [r \in Replicas |-> None]
    /\ quorum = [r \in Replicas |-> {}]
    /\ reg = [r \in Replicas |-> [t \in Tasks |-> [v |-> Absent, ver |-> 0]]]
    /\ outbox = [r \in Replicas |-> <<>>]
    /\ registeredTasks = [r \in Replicas |-> {}]
    /\ locallyRunnableTasks = [r \in Replicas |-> {}]
    /\ worker = [r \in Replicas |-> [t \in Tasks |-> NoWorker]]
    /\ runningTasks = [r \in Replicas |-> {}]
    /\ lastCall = NoCall
    /\ observe = TRUE
    /\ budget = MaxApiOps

ApiNext ==
    \/ Connect(Caller) /\ UNCHANGED <<smVars, throttleVars>>
    \/ Disconnect(Caller) /\ UNCHANGED <<smVars, throttleVars>>
    \/ \E c \in ClientIds : Leave(c) /\ UNCHANGED <<smVars, throttleVars>>
    \/ Deliver(Caller) /\ UNCHANGED <<smVars, throttleVars>>
    \/ \E ids \in (SUBSET Tasks) \ {{}} :
          Register(Caller, ids) /\ UNCHANGED <<smVars, throttleVars>>
    \/ \E t \in Tasks : \E w \in Workers :
          Pick(Caller, t, w) /\ UNCHANGED <<smVars, throttleVars>>
    \/ \E ids \in (SUBSET Tasks) \ {{}} :
          Release(Caller, ids) /\ UNCHANGED <<smVars, throttleVars>>
    \/ \E t \in Tasks : WorkerFails(Caller, t) /\ UNCHANGED <<smVars, throttleVars>>

(***************************************************************************)
(* Throttler (spec 4.2), constructed by SummaryManager.startThrottler      *)
(***************************************************************************)
defaultThrottleDelayWindowMs == 60 * 1000
defaultThrottleMaxDelayMs == 30 * 1000

\* faulty delay function: the sign of the exponential term is flipped
defaultThrottleDelayFunctionNegated(n) == 20 * (1 - 2 ^ n)

\* increases exponentially (0ms, 20ms, 60ms, 140ms, etc)
defaultThrottleDelayFunction(n) == 20 * (2 ^ n - 1)

\* windowStart before the first getDelay
NoWindow == -1

\* the window has elapsed at time t (or no window has started yet)
ThrottlerElapsed(t) ==
    windowStart = NoWindow \/ t - windowStart > defaultThrottleDelayWindowMs

ThrottlerAttempts(t) == IF ThrottlerElapsed(t) THEN 0 ELSE attempts + 1

ThrottlerDelay(t) ==
    IF defaultThrottleDelayFunction(ThrottlerAttempts(t)) < defaultThrottleMaxDelayMs
    THEN defaultThrottleDelayFunction(ThrottlerAttempts(t))
    ELSE defaultThrottleMaxDelayMs

\* Throttler.getDelay() called at time t
getDelay(t) ==
    /\ now' = t
    /\ windowStart' = IF ThrottlerElapsed(t) THEN t ELSE windowStart
    /\ attempts' = ThrottlerAttempts(t)
    /\ lastDelay' = ThrottlerDelay(t)
    /\ calls' = calls + 1

\* a new throttler whose window has not started (w = NoWindow) or starts at
\* construction (w = 0)
ThrottleStart(w) ==
    /\ now = 0
    /\ windowStart = w
    /\ attempts = 0
    /\ lastDelay = 0
    /\ calls = 0

ThrottleInit == \E w \in {NoWindow, 0} : ThrottleStart(w)

\* time passes
Tick ==
    /\ now + TickMs <= MaxTime
    /\ now' = now + TickMs
    /\ UNCHANGED <<windowStart, attempts, lastDelay, calls>>

\* a caller asks for the delay of its next attempt
GetDelayCall ==
    /\ getDelay(now)
    /\ attempts' <= MaxAttempts

ThrottleNext ==
    \/ Tick /\ UNCHANGED <<schedVars, smVars>>
    \/ GetDelayCall /\ UNCHANGED <<schedVars, smVars>>

(***************************************************************************)
(* OrderedClientElection (spec 4.1) over context.quorum                    *)
(***************************************************************************)
NoClient == "none"
LocalIds == {"p1", "p2"}
OtherIds == {"o1"}
SummarizerIds == {"s1"}
MemberIds == LocalIds \cup OtherIds \cup SummarizerIds

\* the members that may be elected: every client that is not a summarizer client
Eligible(mem) == {m \in mem : ~m.summarizer}

getElectedClient(mem) ==
    IF Eligible(mem) = {} THEN NoClient
    ELSE (CHOOSE m \in Eligible(mem) : \A o \in Eligible(mem) : m.seq <= o.seq).id

getSummarizerCount(mem) == Cardinality(mem \ Eligible(mem))

(***************************************************************************)
(* SummaryManager                                                          *)
(***************************************************************************)
opsToBypassInitialDelay == 4000

\* the constructor's maxOpsSinceLastSummary
maxOpsSinceLastSummary == 2

\* details.sequenceNumber - initialSequenceNumber of the parent's own join
OpsGaps == {0, opsToBypassInitialDelay}

\* faulty getShouldSummarizeState: the disposed flag is not looked at
getShouldSummarizeStateIgnoresDisposed(isConn, cid, elected, disp, mem) ==
    IF ~isConn
    THEN [shouldSummarize |-> FALSE, shouldStart |-> FALSE,
          stopReason |-> "parentNotConnected"]
    ELSE IF cid # elected
    THEN [shouldSummarize |-> FALSE, shouldStart |-> FALSE,
          stopReason |-> "parentShouldNotSummarize"]
    ELSE [shouldSummarize |-> TRUE, shouldStart |-> getSummarizerCount(mem) = 0,
          stopReason |-> "-"]

\* faulty getShouldSummarizeState: the disposed flag is looked at before the elected
\* client
getShouldSummarizeStateDisposedFirst(isConn, cid, elected, disp, mem) ==
    IF ~isConn
    THEN [shouldSummarize |-> FALSE, shouldStart |-> FALSE,
          stopReason |-> "parentNotConnected"]
    ELSE IF disp
    THEN [shouldSummarize |-> FALSE, shouldStart |-> FALSE, stopReason |-> "disposed"]
    ELSE IF cid # elected
    THEN [shouldSummarize |-> FALSE, shouldStart |-> FALSE,
          stopReason |-> "parentShouldNotSummarize"]
    ELSE IF getSummarizerCount(mem) > 0
    THEN [shouldSummarize |-> TRUE, shouldStart |-> FALSE, stopReason |-> "-"]
    ELSE [shouldSummarize |-> TRUE, shouldStart |-> TRUE, stopReason |-> "-"]

getShouldSummarizeState(isConn, cid, elected, disp, mem) ==
    IF ~isConn
    THEN [shouldSummarize |-> FALSE, shouldStart |-> FALSE,
          stopReason |-> "parentNotConnected"]
    ELSE IF cid # elected
    THEN [shouldSummarize |-> FALSE, shouldStart |-> FALSE,
          stopReason |-> "parentShouldNotSummarize"]
    ELSE IF disp
    THEN [shouldSummarize |-> FALSE, shouldStart |-> FALSE, stopReason |-> "disposed"]
    ELSE IF getSummarizerCount(mem) > 0
    THEN [shouldSummarize |-> TRUE, shouldStart |-> FALSE, stopReason |-> "-"]
    ELSE [shouldSummarize |-> TRUE, shouldStart |-> TRUE, stopReason |-> "-"]

\* faulty refreshSummarizer: electedClientId is only replaced by a defined client id
summarizerAfterRefreshKeepsLast(mem) ==
    IF getElectedClient(mem) # NoClient THEN getElectedClient(mem) ELSE electedClientId

\* refreshSummarizer: electedClientId after "Compute summarizer"
summarizerAfterRefresh(mem) ==
    IF getElectedClient(mem) # electedClientId
    THEN getElectedClient(mem) ELSE electedClientId

\* faulty refreshSummarizer: "summarizer" is emitted on every refresh
summarizerEventsOnEveryRefresh(mem) == <<getElectedClient(mem)>>

\* refreshSummarizer: the "summarizer" events of "Compute summarizer"
summarizerEvents(mem) ==
    IF getElectedClient(mem) # electedClientId THEN <<getElectedClient(mem)>> ELSE <<>>

\* no transition
stay == UNCHANGED <<state, awaitInitial, throttleVars, warnings, stopCalls, stopReason>>

\* faulty start: summariesEnabled is not looked at
startIgnoresSummariesEnabled(ops) ==
    IF isSummarizerClient
    THEN /\ state' = "Disabled"
         /\ UNCHANGED <<awaitInitial, throttleVars, warnings, stopCalls, stopReason>>
    ELSE /\ state' = "Starting"
         /\ getDelay(now)
         /\ attempts' <= MaxAttempts
         /\ warnings' = IF lastDelay' >= defaultThrottleMaxDelayMs
                        THEN warnings + 1 ELSE warnings
         /\ awaitInitial' = (ops < opsToBypassInitialDelay)
         /\ UNCHANGED <<stopCalls, stopReason>>

\* faulty start: no creation is attempted once the throttle delay is the maximum
startGivesUpAtMaxDelay(ops) ==
    IF ~summariesEnabled \/ isSummarizerClient
    THEN /\ state' = "Disabled"
         /\ UNCHANGED <<awaitInitial, throttleVars, warnings, stopCalls, stopReason>>
    ELSE /\ getDelay(now)
         /\ attempts' <= MaxAttempts
         /\ state' = IF lastDelay' >= defaultThrottleMaxDelayMs THEN "Off" ELSE "Starting"
         /\ warnings' = IF lastDelay' >= defaultThrottleMaxDelayMs
                        THEN warnings + 1 ELSE warnings
         /\ awaitInitial' = (ops < opsToBypassInitialDelay)
         /\ UNCHANGED <<stopCalls, stopReason>>

\* start(), the parent's own join having been seen ops ops after the initial op
start(ops) ==
    IF ~summariesEnabled \/ isSummarizerClient
    THEN /\ state' = "Disabled"
         /\ UNCHANGED <<awaitInitial, throttleVars, warnings, stopCalls, stopReason>>
    ELSE /\ state' = "Starting"
         /\ getDelay(now)
         /\ attempts' <= MaxAttempts
         /\ warnings' = IF lastDelay' >= defaultThrottleMaxDelayMs
                        THEN warnings + 1 ELSE warnings
         /\ awaitInitial' = (ops < opsToBypassInitialDelay)
         /\ UNCHANGED <<stopCalls, stopReason>>

\* faulty stop: the state is reset to Off although a summarizer is running
stopEndsOff(reason, rs, n) ==
    /\ state' = "Off"
    /\ stopCalls' = IF rs THEN n + 1 ELSE n
    /\ stopReason' = reason
    /\ UNCHANGED <<awaitInitial, throttleVars, warnings>>

\* stop(reason), the summarizer (if rs) having received n stop calls so far
stop(reason, rs, n) ==
    /\ state' = IF rs THEN "Stopping" ELSE "Off"
    /\ stopCalls' = IF rs THEN n + 1 ELSE n
    /\ stopReason' = reason
    /\ UNCHANGED <<awaitInitial, throttleVars, warnings>>

\* faulty tryRestart: starts again without looking at shouldSummarize
tryRestartAlways(isConn, cid, elected, disp, mem, ops) == start(ops)

\* faulty tryRestart: the state is left as it is when no summarizer is to be started
tryRestartKeepsState(isConn, cid, elected, disp, mem, ops) ==
    IF /\ getShouldSummarizeState(isConn, cid, elected, disp, mem).shouldSummarize
       /\ getShouldSummarizeState(isConn, cid, elected, disp, mem).shouldStart
    THEN start(ops)
    ELSE stay

\* faulty tryRestart: a disposed manager restarts like one that is not disposed
tryRestartIgnoresDisposed(isConn, cid, elected, disp, mem, ops) ==
    IF /\ getShouldSummarizeState(isConn, cid, elected, FALSE, mem).shouldSummarize
       /\ getShouldSummarizeState(isConn, cid, elected, FALSE, mem).shouldStart
    THEN start(ops)
    ELSE /\ state' = "Off"
         /\ UNCHANGED <<awaitInitial, throttleVars, warnings, stopCalls, stopReason>>

tryRestart(isConn, cid, elected, disp, mem, ops) ==
    IF /\ getShouldSummarizeState(isConn, cid, elected, disp, mem).shouldSummarize
       /\ getShouldSummarizeState(isConn, cid, elected, disp, mem).shouldStart
    THEN start(ops)
    ELSE /\ state' = "Off"
         /\ UNCHANGED <<awaitInitial, throttleVars, warnings, stopCalls, stopReason>>

\* faulty refreshSummarizer: an Off manager that should summarize starts, whether it
\* should start or not
refreshSummarizerIgnoresShouldStart(isConn, cid, disp, mem, ops) ==
    /\ electedClientId' = summarizerAfterRefresh(mem)
    /\ emitted' = summarizerEvents(mem)
    /\ LET s == getShouldSummarizeState(isConn, cid, summarizerAfterRefresh(mem), disp, mem)
       IN  CASE state = "Off" ->
                    IF s.shouldSummarize THEN start(ops) ELSE stay
             [] state = "Running" ->
                    IF ~s.shouldSummarize
                    THEN stop(s.stopReason, runningSummarizer, stopCalls) ELSE stay
             [] OTHER -> stay

\* faulty refreshSummarizer: a Disabled manager is handled like a Running one
refreshSummarizerStopsDisabled(isConn, cid, disp, mem, ops) ==
    /\ electedClientId' = summarizerAfterRefresh(mem)
    /\ emitted' = summarizerEvents(mem)
    /\ LET s == getShouldSummarizeState(isConn, cid, summarizerAfterRefresh(mem), disp, mem)
       IN  CASE state = "Off" ->
                    IF s.shouldSummarize /\ s.shouldStart THEN start(ops) ELSE stay
             [] state \in {"Running", "Disabled"} ->
                    IF ~s.shouldSummarize
                    THEN stop(s.stopReason, runningSummarizer, stopCalls) ELSE stay
             [] OTHER -> stay

\* faulty refreshSummarizer: a Stopping manager that should start again does not wait
\* for its summarizer to exit
refreshSummarizerRestartsWhileStopping(isConn, cid, disp, mem, ops) ==
    /\ electedClientId' = summarizerAfterRefresh(mem)
    /\ emitted' = summarizerEvents(mem)
    /\ LET s == getShouldSummarizeState(isConn, cid, summarizerAfterRefresh(mem), disp, mem)
       IN  CASE state \in {"Off", "Stopping"} ->
                    IF s.shouldSummarize /\ s.shouldStart THEN start(ops) ELSE stay
             [] state = "Running" ->
                    IF ~s.shouldSummarize
                    THEN stop(s.stopReason, runningSummarizer, stopCalls) ELSE stay
             [] OTHER -> stay

refreshSummarizer(isConn, cid, disp, mem, ops) ==
    /\ electedClientId' = summarizerAfterRefresh(mem)
    /\ emitted' = summarizerEvents(mem)
    /\ LET s == getShouldSummarizeState(isConn, cid, summarizerAfterRefresh(mem), disp, mem)
       IN  CASE state = "Off" ->
                    IF s.shouldSummarize /\ s.shouldStart THEN start(ops) ELSE stay
             [] state = "Running" ->
                    IF ~s.shouldSummarize
                    THEN stop(s.stopReason, runningSummarizer, stopCalls) ELSE stay
             [] OTHER -> stay

\* the state after construction in a context that is not connected, with an empty
\* quorum: the initial delay timer is running and refreshSummarizer has found
\* nothing to do
SMStart(enabled, summarizer) ==
    /\ state = "Off"
    /\ prevState = "Off"
    /\ smConnected = FALSE
    /\ smClientId = NoClient
    /\ latestClientId = NoClient
    /\ electedClientId = NoClient
    /\ emitted = <<>>
    /\ runningSummarizer = FALSE
    /\ disposed = FALSE
    /\ hasSummarizersInQuorum = FALSE
    /\ opsUntilFirstConnect = -1
    /\ summariesEnabled = enabled
    /\ isSummarizerClient = summarizer
    /\ members = {}
    /\ joined = {}
    /\ usedIds = {}
    /\ initialDelay = "pending"
    /\ awaitInitial = FALSE
    /\ stopCalls = 0
    /\ stopReason = "-"
    /\ warnings = 0
    /\ hasLoggedTelemetry = FALSE
    /\ lastSummaryAckSeqForClient = 0
    /\ opSeq = 0
    /\ diagnostics = 0

SMInit == \E enabled \in BOOLEAN : \E summarizer \in BOOLEAN : SMStart(enabled, summarizer)

\* the quorum handlers, in the order the constructor registers them, for a change
\* of the quorum to mem: opsUntilFirstConnectHandler has set ops, then
\* "summarizerChange" or "electedChange" of the election
quorumChanged(mem, ops) ==
    /\ members' = mem
    /\ opsUntilFirstConnect' = ops
    /\ hasSummarizersInQuorum' =
          IF getSummarizerCount(mem) # getSummarizerCount(members)
          THEN getSummarizerCount(mem) > 0 ELSE hasSummarizersInQuorum
    /\ IF \/ /\ getSummarizerCount(mem) # getSummarizerCount(members)
             /\ (getSummarizerCount(mem) > 0) # hasSummarizersInQuorum
          \/ getElectedClient(mem) # getElectedClient(members)
       THEN refreshSummarizer(smConnected, smClientId, disposed, mem, ops)
       ELSE stay /\ UNCHANGED electedClientId /\ emitted' = <<>>
    /\ IF getElectedClient(mem) # getElectedClient(members)
       THEN /\ hasLoggedTelemetry' = FALSE
            /\ lastSummaryAckSeqForClient' =
                  IF getElectedClient(mem) # NoClient
                  THEN (CHOOSE m \in mem : m.id = getElectedClient(mem)).seq
                  ELSE lastSummaryAckSeqForClient
            /\ diagnostics' = 0
       ELSE UNCHANGED <<hasLoggedTelemetry, lastSummaryAckSeqForClient, diagnostics>>
    /\ UNCHANGED <<smConnected, smClientId, latestClientId, runningSummarizer, disposed,
                   summariesEnabled, isSummarizerClient, usedIds, initialDelay, opSeq>>

\* quorum "addMember": client c joins
AddMember(c, gap) ==
    /\ c \notin joined
    /\ Cardinality(joined) < MaxJoins
    /\ joined' = joined \cup {c}
    /\ quorumChanged(members \cup {[id |-> c, seq |-> Cardinality(joined) + 1,
                                    summarizer |-> IF c \in LocalIds THEN isSummarizerClient
                                                   ELSE c \in SummarizerIds]},
                     IF opsUntilFirstConnect = -1 /\ c = smClientId
                     THEN gap ELSE opsUntilFirstConnect)

\* quorum "removeMember": member m leaves
RemoveMember(m) ==
    /\ m \in members
    /\ quorumChanged(members \ {m}, opsUntilFirstConnect)
    /\ UNCHANGED joined

\* setConnected(clientId)
SetConnected(c) ==
    /\ c \notin usedIds
    /\ IF smConnected
       THEN UNCHANGED <<smVars, throttleVars>>
       ELSE /\ usedIds' = usedIds \cup {c}
            /\ smConnected' = TRUE
            /\ smClientId' = c
            /\ latestClientId' = c
            /\ refreshSummarizer(TRUE, c, disposed, members, opsUntilFirstConnect)
            /\ UNCHANGED <<runningSummarizer, disposed, hasSummarizersInQuorum,
                           opsUntilFirstConnect, summariesEnabled, isSummarizerClient,
                           members, joined, initialDelay, telemVars>>

\* setDisconnected()
SetDisconnected ==
    IF ~smConnected
    THEN UNCHANGED <<smVars, throttleVars>>
    ELSE /\ smConnected' = FALSE
         /\ smClientId' = NoClient
         /\ refreshSummarizer(FALSE, NoClient, disposed, members, opsUntilFirstConnect)
         /\ UNCHANGED <<latestClientId, runningSummarizer, disposed, hasSummarizersInQuorum,
                        opsUntilFirstConnect, summariesEnabled, isSummarizerClient,
                        members, joined, usedIds, initialDelay, telemVars>>

\* dispose(): initialDelayTimer.clear() resolves a pending initialDelayP as cancelled
Dispose ==
    /\ initialDelay' = IF initialDelay = "pending" THEN "cancel" ELSE initialDelay
    /\ disposed' = TRUE
    /\ UNCHANGED <<state, smConnected, smClientId, latestClientId, electedClientId,
                   runningSummarizer, hasSummarizersInQuorum, opsUntilFirstConnect,
                   summariesEnabled, isSummarizerClient, members, joined, usedIds,
                   awaitInitial, stopCalls, stopReason, throttleVars, warnings, telemVars>>
    /\ emitted' = <<>>

\* the initial delay timer fires
TimerFires ==
    /\ initialDelay = "pending"
    /\ initialDelay' = "timeout"
    /\ UNCHANGED <<state, smConnected, smClientId, latestClientId, electedClientId,
                   runningSummarizer, disposed, hasSummarizersInQuorum,
                   opsUntilFirstConnect, summariesEnabled, isSummarizerClient, members,
                   joined, usedIds, awaitInitial, stopCalls, stopReason, throttleVars,
                   warnings, telemVars>>
    /\ emitted' = <<>>

\* createSummarizer is through with its delays
delaysDone == awaitInitial => initialDelay # "pending"

\* createSummarizer resolves: run(summarizer), with its re-check of shouldSummarize
CreateSucceeds ==
    /\ state = "Starting"
    /\ delaysDone
    /\ runningSummarizer' = TRUE
    /\ LET s == getShouldSummarizeState(smConnected, smClientId, electedClientId,
                                        disposed, members)
       IN  IF ~s.shouldSummarize
           THEN stop(s.stopReason, TRUE, 0)
           ELSE /\ state' = "Running"
                /\ stopCalls' = 0
                /\ UNCHANGED <<awaitInitial, throttleVars, warnings, stopReason>>
    /\ UNCHANGED <<smConnected, smClientId, latestClientId, electedClientId, disposed,
                   hasSummarizersInQuorum, opsUntilFirstConnect, summariesEnabled,
                   isSummarizerClient, members, joined, usedIds, initialDelay, telemVars>>
    /\ emitted' = <<>>

\* createSummarizer rejects: tryRestart()
CreateFails ==
    /\ state = "Starting"
    /\ delaysDone
    /\ tryRestart(smConnected, smClientId, electedClientId, disposed, members,
                  opsUntilFirstConnect)
    /\ UNCHANGED <<smConnected, smClientId, latestClientId, electedClientId,
                   runningSummarizer, disposed, hasSummarizersInQuorum,
                   opsUntilFirstConnect, summariesEnabled, isSummarizerClient, members,
                   joined, usedIds, initialDelay, telemVars>>
    /\ emitted' = <<>>

\* summarizer.run(clientId) settles: runningSummarizer = undefined, tryRestart()
SummarizerExits ==
    /\ runningSummarizer
    /\ runningSummarizer' = FALSE
    /\ tryRestart(smConnected, smClientId, electedClientId, disposed, members,
                  opsUntilFirstConnect)
    /\ UNCHANGED <<smConnected, smClientId, latestClientId, electedClientId, disposed,
                   hasSummarizersInQuorum, opsUntilFirstConnect, summariesEnabled,
                   isSummarizerClient, members, joined, usedIds, initialDelay, telemVars>>
    /\ emitted' = <<>>

\* summaryCollection "default": an op that is not a summary op, with the next
\* sequence number
DefaultOp ==
    /\ opSeq < MaxSeq
    /\ opSeq' = opSeq + 1
    /\ diagnostics' =
          IF /\ (opSeq + 1) - lastSummaryAckSeqForClient > maxOpsSinceLastSummary
             /\ ~hasLoggedTelemetry
             /\ electedClientId # NoClient
          THEN diagnostics + 1 ELSE diagnostics
    /\ UNCHANGED <<hasLoggedTelemetry, lastSummaryAckSeqForClient>>
    /\ UNCHANGED <<state, prevState, smConnected, smClientId, latestClientId,
                   electedClientId, runningSummarizer, disposed, hasSummarizersInQuorum,
                   opsUntilFirstConnect, summariesEnabled, isSummarizerClient, members,
                   joined, usedIds, initialDelay, awaitInitial, stopCalls, stopReason,
                   throttleVars, warnings>>
    /\ emitted' = <<>>

\* summaryCollection MessageType.SummaryAck, with the next sequence number
SummaryAckOp ==
    /\ opSeq < MaxSeq
    /\ opSeq' = opSeq + 1
    /\ hasLoggedTelemetry' = FALSE
    /\ lastSummaryAckSeqForClient' = opSeq + 1
    /\ diagnostics' = 0
    /\ UNCHANGED <<state, prevState, smConnected, smClientId, latestClientId,
                   electedClientId, runningSummarizer, disposed, hasSummarizersInQuorum,
                   opsUntilFirstConnect, summariesEnabled, isSummarizerClient, members,
                   joined, usedIds, initialDelay, awaitInitial, stopCalls, stopReason,
                   throttleVars, warnings>>
    /\ emitted' = <<>>

\* prevState follows state
Track == prevState' = IF state' # state THEN state ELSE prevState

SMNext ==
    \/ \E c \in MemberIds : \E gap \in OpsGaps :
          AddMember(c, gap) /\ Track /\ attempts' <= MaxStarts /\ UNCHANGED schedVars
    \/ \E m \in members : RemoveMember(m) /\ Track /\ attempts' <= MaxStarts /\ UNCHANGED schedVars
    \/ \E c \in LocalIds : SetConnected(c) /\ Track /\ attempts' <= MaxStarts /\ UNCHANGED schedVars
    \/ SetDisconnected /\ Track /\ attempts' <= MaxStarts /\ UNCHANGED schedVars
    \/ Dispose /\ Track /\ attempts' <= MaxStarts /\ UNCHANGED schedVars
    \/ TimerFires /\ Track /\ attempts' <= MaxStarts /\ UNCHANGED schedVars
    \/ CreateSucceeds /\ Track /\ attempts' <= MaxStarts /\ UNCHANGED schedVars
    \/ CreateFails /\ Track /\ attempts' <= MaxStarts /\ UNCHANGED schedVars
    \/ SummarizerExits /\ Track /\ attempts' <= MaxStarts /\ UNCHANGED schedVars

\* a summary manager whose loader fails every creation of a summarizer, all within
\* one window of the throttler
RetryNext ==
    \/ \E c \in MemberIds : \E gap \in OpsGaps :
          AddMember(c, gap) /\ Track /\ UNCHANGED schedVars
    \/ \E m \in members : RemoveMember(m) /\ Track /\ UNCHANGED schedVars
    \/ \E c \in LocalIds : SetConnected(c) /\ Track /\ UNCHANGED schedVars
    \/ SetDisconnected /\ Track /\ UNCHANGED schedVars
    \/ TimerFires /\ Track /\ UNCHANGED schedVars
    \/ CreateFails /\ Track /\ UNCHANGED schedVars

\* the ops of the summary collection and the changes of the quorum
TelemetryNext ==
    \/ \E c \in MemberIds : \E gap \in OpsGaps :
          AddMember(c, gap) /\ Track /\ UNCHANGED schedVars
    \/ \E m \in members : RemoveMember(m) /\ Track /\ UNCHANGED schedVars
    \/ DefaultOp /\ UNCHANGED schedVars
    \/ SummaryAckOp /\ UNCHANGED schedVars

(***************************************************************************)
(* Specifications                                                          *)
(***************************************************************************)
\* the scheduler of two replicas competing for one task
SchedSpecInit ==
    SchedInit /\ SMStart(TRUE, FALSE) /\ ThrottleStart(NoWindow)

SchedSpec ==
    /\ SchedSpecInit
    /\ [][SchedNext]_vars

\* the scheduler of a replica that reconnects and of one that looks on
ReactSpecInit ==
    ReactInit /\ SMStart(TRUE, FALSE) /\ ThrottleStart(NoWindow)

ReactSpec ==
    /\ ReactSpecInit
    /\ [][ReactNext]_vars

\* the scheduler of one replica, with its API calls recorded
ApiSpecInit ==
    ApiInit /\ SMStart(TRUE, FALSE) /\ ThrottleStart(NoWindow)

ApiSpec ==
    /\ ApiSpecInit
    /\ [][ApiNext]_vars

\* the throttler on its own
ThrottleSpecInit ==
    SchedInit /\ SMStart(TRUE, FALSE) /\ ThrottleInit

ThrottleSpec ==
    /\ ThrottleSpecInit
    /\ [][ThrottleNext]_vars

\* the summary manager of one client
SMSpecInit ==
    SchedInit /\ SMInit /\ ThrottleStart(NoWindow)

SMSpec ==
    /\ SMSpecInit
    /\ [][SMNext]_vars

\* the summary manager of one client whose summarizer cannot be created
RetrySpecInit ==
    SchedInit /\ SMStart(TRUE, FALSE) /\ ThrottleStart(NoWindow)

RetrySpec ==
    /\ RetrySpecInit
    /\ [][RetryNext]_vars

\* the telemetry of a summary manager about an elected client that does not summarize
TelemetrySpecInit ==
    SchedInit /\ SMStart(TRUE, FALSE) /\ ThrottleStart(NoWindow)

TelemetrySpec ==
    /\ TelemetrySpecInit
    /\ [][TelemetryNext]_vars

\* the summary manager with a summarizer that exits once it has been told to stop, a
\* timer that fires and a loader that answers
SMFairSpec ==
    /\ SMSpec
    /\ WF_vars(/\ state = "Stopping" /\ SummarizerExits /\ Track
               /\ attempts' <= MaxStarts /\ UNCHANGED schedVars)
    /\ WF_vars(TimerFires /\ Track /\ attempts' <= MaxStarts /\ UNCHANGED schedVars)
    /\ WF_vars(/\ (CreateSucceeds \/ CreateFails) /\ Track
               /\ attempts' <= MaxStarts /\ UNCHANGED schedVars)

(***************************************************************************)
(* Properties of the scheduler.                                            *)
(***************************************************************************)
\* the ops the service sequences in a step
Sequenced ==
    IF seq' - seq <= Len(log')
    THEN SubSeq(log', Len(log') - (seq' - seq) + 1, Len(log')) ELSE <<>>

\* the writes replica r sequences in a step
SequencedWrites(r) == SelectSeq(Sequenced, LAMBDA o : o.type = "write" /\ o.from = r)

\* writeCore: the register writes replica r issues in a step, in order; the pending
\* writes it resubmits are not among them
Issued(r) ==
    LET all == [i \in 1..Len(SequencedWrites(r)) |->
                   Write(SequencedWrites(r)[i].key, SequencedWrites(r)[i].value,
                         SequencedWrites(r)[i].seen)] \o outbox'[r]
    IN  SubSeq(all, Len(outbox[r]) + 1, Len(all))

\* atomicChanged: replica r, its connection open, sees a new atomic value of key t
Changed(r, t) == conn[r] # None /\ reg'[r][t].ver = reg[r][t].ver + 1

\* nothing is in flight: every submitted write and every leave has been sequenced,
\* and every open connection has processed the whole log
Quiescent ==
    /\ \A r \in Replicas : outbox[r] = <<>>
    /\ log = <<>>
    /\ PendingLeaves = {}

Interested(t) == {r \in Replicas : IsActive(r) /\ t \in locallyRunnableTasks[r]}

\* log[i] is a claim: a write of its writer's own client id
IsClaim(i) == log[i].type = "write" /\ log[i].value \in ClientIds

\* log[i] and log[j] are two claims of one task by two replicas, the first accepted
\* and the second written without having seen the first
Race(i, j) ==
    /\ i < j
    /\ IsClaim(i) /\ IsClaim(j)
    /\ log[i].key = log[j].key
    /\ log[i].from # log[j].from
    /\ log[i].win
    /\ log[j].seen < log[i].ver

\* C1: when two replicas claim an unclaimed task concurrently, the claim sequenced
\* first is accepted and the other is rejected; every replica that has processed both
\* sees the first writer as the owner, and the replica whose claim lost does not run
\* the task, neither before nor after it learns the outcome.
C1_FirstClaimWins ==
    \A i \in 1..Len(log) : \A j \in 1..Len(log) :
        Race(i, j) =>
            /\ ~log[j].win
            /\ \A r \in Replicas :
                   (conn[r] # None /\ cursor[r] >= j /\ reg[r][log[i].key].ver = log[i].ver)
                       => reg[r][log[i].key].v = log[i].value
            /\ reg[log[j].from][log[i].key].ver <= log[i].ver
                   => log[i].key \notin runningTasks[log[j].from]

\* the replica whose claim lost has processed both claims: it is still interested,
\* sees the other replica as the owner and does not run the task
C1_Witness ==
    \E i \in 1..Len(log) : \E j \in 1..Len(log) :
        /\ Race(i, j)
        /\ conn[log[j].from] # None /\ cursor[log[j].from] >= j
        /\ log[i].key \in locallyRunnableTasks[log[j].from]
        /\ reg[log[j].from][log[i].key].v = log[i].value
        /\ log[i].key \notin runningTasks[log[j].from]

\* C2: once nothing is in flight, a task some active replica is interested in has an
\* owner that is a member of the quorum, and every active interested replica sees
\* that same owner (and that same quorum).
C2_Convergence ==
    Quiescent =>
        \A t \in Tasks :
            Interested(t) # {} =>
                /\ sreg[t].v \in squorum
                /\ \A r \in Interested(t) : reg[r][t] = sreg[t] /\ quorum[r] = squorum

\* two interested replicas agree on an owner after ownership has changed hands
C2_Witness ==
    /\ Quiescent
    /\ \E t \in Tasks :
          /\ Cardinality(Interested(t)) = 2
          /\ sreg[t].ver >= 2
          /\ \E r \in Interested(t) : sreg[t].v = clientId[r] /\ t \in runningTasks[r]

\* C3: once nothing is in flight and some replica is active, no task is left owned by
\* a client outside the quorum: a task no active replica is interested in is
\* unclaimed, and a task some active replica is interested in is owned by one of them.
C3_OrphanCleanup ==
    (Quiescent /\ \E r \in Replicas : IsActive(r)) =>
        \A t \in Tasks :
            /\ sreg[t].v \in squorum \cup {Null, Absent}
            /\ Interested(t) = {} => sreg[t].v \in {Null, Absent}
            /\ Interested(t) # {} => \E r \in Interested(t) : sreg[t].v = clientId[r]

\* the owner of a task has left the quorum, nobody active wants the task, and the
\* entry has been cleared
C3_Witness ==
    /\ Quiescent
    /\ \E r \in Replicas : IsActive(r)
    /\ \E o \in Replicas : \E t \in Tasks :
          /\ ~IsActive(o) /\ clientId[o] \in ClientIds /\ clientId[o] \notin squorum
          /\ t \in locallyRunnableTasks[o]
          /\ Interested(t) = {}
          /\ sreg[t].v = Null /\ sreg[t].ver >= 2

\* C4: with no competing claimant and nothing in flight, pickedTasks() of an active
\* replica is exactly the set of tasks it has picked and not released: {a} after
\* register(a) and pick(a), empty again after release(a).
C4_BasicFlow ==
    Quiescent =>
        \A r \in Replicas : \A t \in Tasks :
            (IsActive(r) /\ \A o \in Replicas \ {r} : t \notin locallyRunnableTasks[o])
                => (t \in runningTasks[r] <=> t \in locallyRunnableTasks[r])

\* the replica has registered, picked and released the task: the entry went from
\* unclaimed to the replica and back, and the replica runs nothing
C4_Witness ==
    /\ Quiescent
    /\ \E r \in Replicas : \E t \in Tasks :
          /\ IsActive(r) /\ t \in registeredTasks[r]
          /\ \A o \in Replicas : t \notin locallyRunnableTasks[o]
          /\ sreg[t] = [v |-> Null, ver |-> 3]
          /\ runningTasks[r] = {}
          /\ connCount = [o \in Replicas |-> IF o = r THEN 1 ELSE 0]

\* C10: a register call naming a task this replica has already registered throws,
\* leaves registeredTasks as it was and issues no write.
C10_RegisterTwiceThrows ==
    [][(lastCall'.op = "register" /\ lastCall'.ids \cap registeredTasks[lastCall'.r] # {})
          => /\ lastCall'.threw
             /\ registeredTasks' = registeredTasks
             /\ outbox' = outbox /\ seq' = seq /\ log' = log /\ sreg' = sreg]_vars

\* a register call of a registered and an unregistered task has thrown, and the
\* unregistered one is still unregistered
C10_Witness ==
    /\ lastCall.op = "register" /\ lastCall.threw
    /\ lastCall.ids \cap registeredTasks[lastCall.r] # {}
    /\ lastCall.ids \ registeredTasks[lastCall.r] # {}

\* C11: a pick call for a task that is in this replica's locallyRunnableTasks throws,
\* and the stored workers, locallyRunnableTasks, runningTasks and the register (the
\* replica's copy and the writes on their way to it) are as they were before the call.
C11_PickTwiceThrows ==
    [][(lastCall'.op = "pick" /\ lastCall'.ids \subseteq locallyRunnableTasks[lastCall'.r])
          => /\ lastCall'.threw
             /\ worker' = worker
             /\ locallyRunnableTasks' = locallyRunnableTasks
             /\ runningTasks' = runningTasks
             /\ reg' = reg /\ outbox' = outbox /\ seq' = seq /\ log' = log
             /\ sreg' = sreg]_vars

\* a pick call for a task the replica is running has thrown
C11_Witness ==
    /\ lastCall.op = "pick" /\ lastCall.threw
    /\ lastCall.ids # {}
    /\ lastCall.ids \subseteq runningTasks[lastCall.r]

\* C12 (amended): a release call throws if one of its ids is not in this replica's
\* locallyRunnableTasks (the replica has not picked it, or has released it since), or
\* if the replica's copy of the register does not name the replica's client id as the
\* owner of one of its ids; when it throws, locallyRunnableTasks (keys and workers) is
\* as it was and no register write is issued.
C12_ReleaseNotHeldThrows ==
    [][(/\ lastCall'.op = "release"
        /\ \E t \in lastCall'.ids :
              \/ t \notin locallyRunnableTasks[lastCall'.r]
              \/ getTaskClientId(lastCall'.r, t) # clientId[lastCall'.r])
          => /\ lastCall'.threw
             /\ locallyRunnableTasks' = locallyRunnableTasks
             /\ worker' = worker
             /\ outbox' = outbox /\ seq' = seq /\ log' = log /\ sreg' = sreg]_vars

\* a release call of a task the replica holds and owns and of a task it has not picked
\* has thrown, and the replica still holds the first
C12_Witness ==
    /\ lastCall.op = "release" /\ lastCall.threw
    /\ IsActive(lastCall.r)
    /\ \E t \in lastCall.ids :
          /\ t \in locallyRunnableTasks[lastCall.r]
          /\ getTaskClientId(lastCall.r, t) = clientId[lastCall.r]
    /\ \E u \in lastCall.ids : u \notin locallyRunnableTasks[lastCall.r]

\* C12 as stated: a release call throws if one of its ids has not been registered by
\* this replica, or if the register does not name the replica as the owner of one of
\* its ids, and then nothing is removed from locallyRunnableTasks and no write issued.
C12_AsStated ==
    [][(/\ lastCall'.op = "release"
        /\ \E t \in lastCall'.ids :
              \/ t \notin registeredTasks[lastCall'.r]
              \/ getTaskClientId(lastCall'.r, t) # clientId[lastCall'.r])
          => /\ lastCall'.threw
             /\ locallyRunnableTasks' = locallyRunnableTasks
             /\ outbox' = outbox /\ seq' = seq /\ log' = log /\ sreg' = sreg]_vars

\* C20: in every reachable state the tasks a replica runs are among the keys of its
\* locallyRunnableTasks.
C20_RunningSubsetOfRunnable ==
    \A r \in Replicas : runningTasks[r] \subseteq locallyRunnableTasks[r]

\* replica r, active, sees key t change to a client that is not in its quorum
ChangedToAbsentClient(r, t) ==
    /\ Changed(r, t)
    /\ IsActive(r)
    /\ reg'[r][t].v \notin quorum[r] \cup {Null}

\* C23: an active replica that sees a register change to a client id that is not in
\* the quorum writes the unclaimed marker for the task, and nothing else, whether or
\* not it has declared interest in the task
C23_AbsentOwnerIsCleared ==
    [][\A r \in Replicas : \A t \in Tasks :
          ChangedToAbsentClient(r, t)
             => Issued(r) = <<Write(t, Null, reg'[r][t].ver)>>]_vars

\* C23 as stated: the replica writes itself as claimant if it has declared interest in
\* the task, the unclaimed marker otherwise
C23_AsStated ==
    [][\A r \in Replicas : \A t \in Tasks :
          ChangedToAbsentClient(r, t)
             => Issued(r) = <<Write(t, IF t \in locallyRunnableTasks[r]
                                       THEN clientId[r] ELSE Null, reg'[r][t].ver)>>]_vars

\* a replica that wants the task has become connected, has then processed an accepted
\* write naming a client that is not in its quorum, and its write of the unclaimed
\* marker is the last op of the log
C23_Witness ==
    \E r \in Replicas : \E t \in Tasks : \E i, j \in 1..Len(log) :
       /\ i < j /\ j <= cursor[r] /\ j < Len(log)
       /\ connected[r] /\ t \in locallyRunnableTasks[r]
       /\ log[i].type = "join" /\ log[i].client = clientId[r]
       /\ log[j].type = "write" /\ log[j].win /\ log[j].key = t
       /\ log[j].value \notin quorum[r] \cup {Null}
       /\ log[Len(log)].type = "write" /\ log[Len(log)].from = r
       /\ log[Len(log)].key = t /\ log[Len(log)].value = Null
       /\ log[Len(log)].seen = log[j].ver

\* the keys and values of the writes replica r issues in a step
IssuedSet(r) == {<<Issued(r)[i].key, Issued(r)[i].value>> : i \in DOMAIN Issued(r)}

\* C24: a replica that sees member c removed from the quorum issues, in that step, for
\* every register entry whose value is c one write - itself as claimant if it has
\* declared interest in the task, the unclaimed marker otherwise - and no other write,
\* if it is active; it issues no write if it is not active
C24_MemberRemoval ==
    [][\A r \in Replicas : \A c \in quorum[r] \ quorum'[r] :
          IF IsActive(r)
          THEN /\ IssuedSet(r) =
                     {<<t, IF t \in locallyRunnableTasks[r] THEN clientId[r] ELSE Null>> :
                         t \in {u \in Tasks : getTaskClientId(r, u) = c}}
               /\ Len(Issued(r)) = Cardinality(IssuedSet(r))
          ELSE Issued(r) = <<>>]_vars

\* an active replica that wants a task sees, as its owner, a client of another replica
\* that has left its quorum, and its claim of the task, made on top of that value, is
\* the last op of the log
C24_Witness ==
    \E r \in Replicas : \E t \in Tasks :
       /\ IsActive(r) /\ t \in locallyRunnableTasks[r]
       /\ getTaskClientId(r, t) \in ClientIds \ quorum[r]
       /\ getTaskClientId(r, t)[1] # r
       /\ log # <<>>
       /\ log[Len(log)].type = "write" /\ log[Len(log)].from = r
       /\ log[Len(log)].key = t /\ log[Len(log)].value = clientId[r]
       /\ log[Len(log)].seen = reg[r][t].ver

\* C25: a replica that becomes active on connection issues, in that step, one claim of
\* its own for every task in locallyRunnableTasks whose register entry is absent or
\* unclaimed, one write of the unclaimed marker for every entry whose owner is not in
\* the quorum, and no other write: none for an entry owned by a member of the quorum
C25_InitializeOnConnect ==
    [][\A r \in Replicas :
          (~IsActive(r) /\ connected'[r])
             => /\ IssuedSet(r) =
                      {<<t, clientId'[r]>> :
                          t \in {u \in locallyRunnableTasks[r] : reg[r][u].v \in {Absent, Null}}}
                      \cup {<<t, Null>> :
                          t \in {u \in Tasks : reg[r][u].v \in ClientIds \ quorum'[r]}}
                /\ Len(Issued(r)) = Cardinality(IssuedSet(r))]_vars

\* a replica has just processed its own join, and the next op of the log is its claim,
\* with its new client id, of a task it had picked while it was not connected
C25_Witness ==
    \E r \in Replicas : \E t \in Tasks :
       /\ IsActive(r) /\ t \in locallyRunnableTasks[r]
       /\ cursor[r] >= 1 /\ cursor[r] < Len(log)
       /\ log[cursor[r]].type = "join" /\ log[cursor[r]].client = clientId[r]
       /\ log[cursor[r] + 1].type = "write" /\ log[cursor[r] + 1].from = r
       /\ log[cursor[r] + 1].key = t /\ log[cursor[r] + 1].value = clientId[r]
       /\ getTaskClientId(r, t) \in {Absent, Null}

\* C26: when a replica disconnects, its runningTasks becomes empty, one "lost"
\* notification is emitted for each task that was running, the replica issues no
\* register write, and its locallyRunnableTasks is left as it was
C26_DisconnectLosesTasks ==
    [][\A r \in Replicas :
          (conn[r] # None /\ conn'[r] = None)
             => /\ runningTasks'[r] = {}
                /\ lastCall' = IF runningTasks[r] = {} THEN NoCall
                               ELSE [op |-> "lost", r |-> r, ids |-> runningTasks[r],
                                     threw |-> FALSE]
                /\ Issued(r) = <<>>
                /\ seq' = seq /\ sreg' = sreg /\ outbox' = outbox
                /\ locallyRunnableTasks' = locallyRunnableTasks
                /\ worker' = worker]_vars

\* the replica has just disconnected while it ran a task: the task is lost, and the
\* replica still wants it
C26_Witness ==
    /\ lastCall.op = "lost" /\ lastCall.ids # {}
    /\ conn[lastCall.r] = None
    /\ runningTasks[lastCall.r] = {}
    /\ lastCall.ids \subseteq locallyRunnableTasks[lastCall.r]

\* C27: a task enters runningTasks of a replica only in the step in which the replica,
\* active, sees the register entry of the task change to its own client id; the step
\* of a pick leaves runningTasks as it was; and a replica runs no task whose register
\* entry, as it sees it, names another owner or none (its claim has lost, or has not
\* come back yet)
C27_RunsOnlyOnOwnClaim ==
    [][\A r \in Replicas : \A t \in Tasks :
          /\ (t \in runningTasks'[r] /\ t \notin runningTasks[r])
                => /\ Changed(r, t) /\ IsActive(r)
                   /\ reg'[r][t].v = clientId[r]
          /\ (t \in locallyRunnableTasks'[r] /\ t \notin locallyRunnableTasks[r])
                => runningTasks' = runningTasks
          /\ t \in runningTasks'[r] => reg'[r][t].v = clientId'[r]]_vars

\* an active replica has picked a task and its claim has been sequenced but has not
\* come back to it: the replica does not run the task
C27_Witness ==
    \E r \in Replicas : \E t \in Tasks : \E i \in 1..Len(log) :
       /\ IsActive(r) /\ t \in locallyRunnableTasks[r]
       /\ i > cursor[r]
       /\ log[i].type = "write" /\ log[i].from = r /\ log[i].key = t
       /\ log[i].value = clientId[r] /\ log[i].win
       /\ t \notin runningTasks[r]

\* C28: an active replica that sees the register entry of a task change to its own
\* client id, and holds a worker for the task, adds the task to runningTasks, emits
\* "picked" and calls the worker once, and issues no write; when the worker fails
\* later, the failure is logged and nothing else happens: runningTasks and the register
\* are as they were, no write is issued and the worker is not called again
C28_PickedAndWorkerFailure ==
    [][/\ \A r \in Replicas : \A t \in Tasks :
             (/\ Changed(r, t) /\ IsActive(r)
              /\ reg'[r][t].v = clientId[r]
              /\ t \in locallyRunnableTasks[r])
                => /\ runningTasks'[r] = runningTasks[r] \cup {t}
                   /\ t \notin runningTasks[r]
                   /\ lastCall' = [op |-> "picked", r |-> r, ids |-> {t}, threw |-> FALSE]
                   /\ Issued(r) = <<>>
       /\ lastCall'.op = "failedWork"
             => /\ runningTasks' = runningTasks
                /\ locallyRunnableTasks' = locallyRunnableTasks /\ worker' = worker
                /\ Issued(lastCall'.r) = <<>>
                /\ seq' = seq /\ log' = log /\ sreg' = sreg /\ reg' = reg
                /\ outbox' = outbox]_vars

\* the worker of a task the replica runs has failed: the replica still runs the task
\* and still owns it
C28_Witness ==
    /\ lastCall.op = "failedWork"
    /\ lastCall.ids \subseteq runningTasks[lastCall.r]
    /\ \A t \in lastCall.ids : sreg[t].v = clientId[lastCall.r]
    /\ IsActive(lastCall.r)

\* C29: a replica that sees the register entry of a task change to a value that is not
\* its own client id no longer runs the task afterwards; it emits "released" - once,
\* for that task - if it ran the task, and no "released" if it did not; "released" is
\* emitted in no other step
C29_ReleasedOnReassignment ==
    [][/\ \A r \in Replicas : \A t \in Tasks :
             (Changed(r, t) /\ reg'[r][t].v # clientId[r])
                => /\ runningTasks'[r] = runningTasks[r] \ {t}
                   /\ IF t \in runningTasks[r]
                      THEN lastCall' = [op |-> "released", r |-> r, ids |-> {t},
                                        threw |-> FALSE]
                      ELSE lastCall'.op # "released"
       /\ lastCall'.op = "released"
             => \E t \in Tasks :
                   /\ lastCall'.ids = {t}
                   /\ Changed(lastCall'.r, t)
                   /\ reg'[lastCall'.r][t].v # clientId[lastCall'.r]
                   /\ t \in runningTasks[lastCall'.r]]_vars

\* the replica has just seen a task it ran become unclaimed: "released" has been
\* emitted and the replica, still connected, no longer runs the task
C29_Witness ==
    /\ lastCall.op = "released"
    /\ IsActive(lastCall.r)
    /\ lastCall.ids \cap runningTasks[lastCall.r] = {}
    /\ \A t \in lastCall.ids : getTaskClientId(lastCall.r, t) = Null

\* C30: a release that does not throw removes its tasks from locallyRunnableTasks and
\* issues one write of the unclaimed marker for each of them, and no other write; a
\* replica that sees a task become unclaimed no longer runs it afterwards, and it
\* claims the task in that step only if it is active and the task is in its
\* locallyRunnableTasks, that is, not after its own release unless it has picked the
\* task again
C30_ReleaseThenUnclaimed ==
    [][/\ (lastCall'.op = "release" /\ ~lastCall'.threw)
             => /\ locallyRunnableTasks'[lastCall'.r] =
                      locallyRunnableTasks[lastCall'.r] \ lastCall'.ids
                /\ IssuedSet(lastCall'.r) = {<<t, Null>> : t \in lastCall'.ids}
                /\ Len(Issued(lastCall'.r)) = Cardinality(lastCall'.ids)
       /\ \A r \in Replicas : \A t \in Tasks :
             (Changed(r, t) /\ reg'[r][t].v = Null)
                => /\ t \notin runningTasks'[r]
                   /\ Issued(r) = IF IsActive(r) /\ t \in locallyRunnableTasks[r]
                                  THEN <<Write(t, clientId[r], reg'[r][t].ver)>>
                                  ELSE <<>>]_vars

\* the replica has released a task it ran and has seen the task become unclaimed: it
\* does not want the task, does not run it, and nothing of it is in flight
C30_Witness ==
    /\ lastCall.op = "released"
    /\ IsActive(lastCall.r)
    /\ \A t \in lastCall.ids :
          /\ t \notin locallyRunnableTasks[lastCall.r]
          /\ t \notin runningTasks[lastCall.r]
          /\ sreg[t].v = Null
    /\ outbox[lastCall.r] = <<>>
    /\ cursor[lastCall.r] = Len(log)

\* C31: a register call that does not throw issues one write of the unclaimed marker
\* for each id of the call whose register entry is absent, and no other write: none
\* for an id whose entry exists, claimed or unclaimed, and none of a client id
C31_RegisterWritesAbsentOnly ==
    [][(lastCall'.op = "register" /\ ~lastCall'.threw)
          => /\ IssuedSet(lastCall'.r) =
                   {<<t, Null>> :
                       t \in {u \in lastCall'.ids : getTaskClientId(lastCall'.r, u) = Absent}}
             /\ Len(Issued(lastCall'.r)) = Cardinality(IssuedSet(lastCall'.r))
             /\ registeredTasks'[lastCall'.r] = registeredTasks[lastCall'.r] \cup lastCall'.ids
             /\ reg' = reg]_vars

\* the replica has just registered two tasks, one of which it owns and one whose entry
\* is absent: the one write in flight is the unclaimed marker of the latter
C31_Witness ==
    /\ lastCall.op = "register" /\ ~lastCall.threw
    /\ \E t \in lastCall.ids : \E u \in lastCall.ids :
          /\ getTaskClientId(lastCall.r, t) = clientId[lastCall.r]
          /\ getTaskClientId(lastCall.r, u) = Absent
          /\ Len(log) = cursor[lastCall.r] + 1
          /\ log[Len(log)].type = "write" /\ log[Len(log)].key = u
          /\ log[Len(log)].value = Null
    /\ outbox[lastCall.r] = <<>>

\* C37: when an active replica sees a register change to its own client id, the task is
\* not in its runningTasks: the assert of onNewTaskAssigned does not throw
C37_NotAlreadyRunning ==
    [][\A r \in Replicas : \A t \in Tasks :
          (Changed(r, t) /\ IsChosen(r, reg'[r][t].v)) => t \notin runningTasks[r]]_vars

\* a replica runs a task it has claimed for the second time: its first claim was
\* followed by another accepted write
C37_Witness ==
    \E r \in Replicas : \E t \in runningTasks[r] :
        /\ reg[r][t].v = clientId[r]
        /\ reg[r][t].ver >= 3

\* C39: every task in the runningTasks of a connected replica is one whose register
\* entry, as the replica has it, names the client id the replica has now
C39_RunningTasksAreOwned ==
    \A r \in Replicas :
        connected[r] => \A t \in runningTasks[r] : getTaskClientId(r, t) = clientId[r]

\* a replica that has reconnected runs a task under the client id of its second
\* connection
C39_Witness ==
    \E r \in Replicas :
        /\ connected[r] /\ connCount[r] = 2
        /\ clientId[r] = Client(r, 2)
        /\ runningTasks[r] # {}

\* C35: two replicas that have processed the log up to the same position have no
\* running task in common
C35_OneRunnerPerPosition ==
    \A r1 \in Replicas : \A r2 \in Replicas \ {r1} :
        (conn[r1] # None /\ conn[r2] # None /\ cursor[r1] = cursor[r2])
            => runningTasks[r1] \cap runningTasks[r2] = {}

\* two connected replicas want the same task and have both processed the whole log: one
\* of them runs the task
C35_Witness ==
    \E r1 \in Replicas : \E r2 \in Replicas \ {r1} : \E t \in Tasks :
        /\ connected[r1] /\ connected[r2]
        /\ cursor[r1] = cursor[r2] /\ log = <<>>
        /\ t \in locallyRunnableTasks[r1] \cap locallyRunnableTasks[r2]
        /\ t \in runningTasks[r1] /\ t \notin runningTasks[r2]

\* C36: while the accepted value of a task is a client that is in the quorum, every
\* write of the task that is accepted comes from the replica of that client (its
\* release): no write of another replica takes the task away from a live owner
C36_LiveOwnerKeepsTask ==
    [][\A t \in Tasks :
          (sreg[t].v \in squorum /\ sreg'[t] # sreg[t])
             => \A i \in DOMAIN Sequenced :
                   (Sequenced[i].type = "write" /\ Sequenced[i].key = t /\ Sequenced[i].win)
                      => Sequenced[i].from = sreg[t].v[1]]_vars

\* the unclaimed marker another replica wrote for a task has been rejected: the task
\* is owned by a client that is in the quorum
C36_Witness ==
    \E i \in DOMAIN log :
        /\ log[i].type = "write" /\ log[i].value = Null /\ ~log[i].win
        /\ sreg[log[i].key].v \in squorum
        /\ sreg[log[i].key].v[1] # log[i].from

(***************************************************************************)
(* Properties of the summary manager and the throttler.                    *)
(***************************************************************************)
ShouldSummarize ==
    getShouldSummarizeState(smConnected, smClientId, electedClientId, disposed,
                            members).shouldSummarize

ShouldStart ==
    getShouldSummarizeState(smConnected, smClientId, electedClientId, disposed,
                            members).shouldStart

\* C5: after every membership event the elected client is the member of the quorum
\* that is eligible (not a summarizer client) and has the smallest join sequence
\* number, and there is none iff no member is eligible; so when the elected member is
\* removed the next-smallest remaining eligible member is elected.
C5_ElectedIsOldestEligible ==
    IF \E m \in members : ~m.summarizer
    THEN \E m \in members :
            /\ ~m.summarizer
            /\ m.id = electedClientId
            /\ \A o \in members : ~o.summarizer => m.seq <= o.seq
    ELSE electedClientId = NoClient

\* every client that joined was eligible, the first to join has been removed, and the
\* second is elected while a third is a member
C5_Witness ==
    /\ ~isSummarizerClient /\ joined \cap SummarizerIds = {}
    /\ \A m \in members : m.seq # 1
    /\ \E m \in members : m.seq = 2 /\ m.id = electedClientId
    /\ \E m \in members : m.seq = 3

\* C7 (amended): when the manager is Running and a connectivity or election change
\* makes shouldSummarize false, stop() is called on the running summarizer, once;
\* while Stopping it is not called again; and when the manager leaves Stopping (the
\* summarizer has exited) the state is Off, unless the manager should summarize and
\* start again at that moment, in which case it is Starting.
C7_StopsOnceThenOffOrRestart ==
    [][/\ (state = "Running" /\ ShouldSummarize /\ ~ShouldSummarize'
              /\ disposed' = disposed)
           => (state' = "Stopping" /\ stopCalls' = 1)
       /\ (state = "Stopping" /\ state' = "Stopping") => stopCalls' = stopCalls
       /\ state' = "Stopping" => (stopCalls' = 1 /\ runningSummarizer')
       /\ (state = "Stopping" /\ state' # "Stopping")
           => \/ state' = "Off"
              \/ state' = "Starting" /\ ShouldSummarize' /\ ShouldStart']_vars

\* the manager was Running when a disconnect stopped the summarizer, and it has been
\* connected again since, without a second stop call
C7_Witness ==
    /\ state = "Stopping" /\ prevState = "Running"
    /\ stopReason = "parentNotConnected"
    /\ smConnected
    /\ stopCalls = 1

\* C7 as stated: whenever shouldSummarize turns false while Running, stop() is
\* called, exactly once, and the state eventually becomes Off.
C7_AsStated ==
    /\ [][(state = "Running" /\ ShouldSummarize /\ ~ShouldSummarize')
             => (state' = "Stopping" /\ stopCalls' = 1)]_vars
    /\ [](stopCalls <= 1)
    /\ (state = "Stopping") ~> (state = "Off")

C9_ThrottleDelays ==
    [][/\ (calls' # calls /\ windowStart' = windowStart) => lastDelay' >= lastDelay
       /\ (calls' # calls /\ windowStart' # windowStart)
           => lastDelay' = defaultThrottleDelayFunction(0)]_vars

\* the delays of a first window have reached the maximum, and in a later window
\* they have grown again from the base delay
C9_Witness ==
    /\ calls > MaxAttempts + 1
    /\ attempts = 2 /\ lastDelay = 60

\* C13 (amended): every change of the state is one of
\*   Off -> Starting, or Off -> Disabled when summaries are disabled or the client is
\*     a summarizer client (start);
\*   Starting -> Running when the summarizer has been created, which run() follows at
\*     once by Running -> Stopping when the manager should not summarize any more;
\*   Starting -> Off when the creation has failed and tryRestart does not start again;
\*   Running -> Stopping (stop, the summarizer still running);
\*   Running -> Off, Running -> Starting, Stopping -> Off, Stopping -> Starting when
\*     the summarizer has exited (tryRestart).
C13_Transitions ==
    [][state' # state =>
         \/ /\ state = "Off" /\ state' = "Starting"
            /\ summariesEnabled /\ ~isSummarizerClient
         \/ /\ state = "Off" /\ state' = "Disabled"
            /\ ~summariesEnabled \/ isSummarizerClient
         \/ state = "Starting" /\ state' = "Running" /\ runningSummarizer'
         \/ /\ state = "Starting" /\ state' = "Stopping"
            /\ ~runningSummarizer /\ runningSummarizer' /\ ~ShouldSummarize'
         \/ state = "Starting" /\ state' = "Off" /\ ~runningSummarizer'
         \/ state = "Running" /\ state' = "Stopping" /\ runningSummarizer'
         \/ /\ state \in {"Running", "Stopping"} /\ state' \in {"Off", "Starting"}
            /\ runningSummarizer /\ ~runningSummarizer']_vars

\* the stopped summarizer has exited and the manager has started again, without
\* passing through Off
C13_Witness ==
    /\ state = "Starting" /\ prevState = "Stopping"
    /\ calls = 2 /\ stopCalls = 1

\* C13 as stated: every change of the state is one of Off -> Starting,
\* Starting -> Running, Running -> Stopping, Stopping -> Off, Starting -> Disabled
\* (a handler that makes two of these in a row, Starting -> Running -> Stopping,
\* counts as the two).
C13_AsStated ==
    [][state' # state =>
         <<state, state'>> \in {<<"Off", "Starting">>, <<"Starting", "Running">>,
                                <<"Running", "Stopping">>, <<"Stopping", "Off">>,
                                <<"Starting", "Disabled">>, <<"Starting", "Stopping">>}]_vars

\* C14: once the state is Disabled, no event changes it.
C14_DisabledAbsorbing ==
    [][state = "Disabled" => state' = "Disabled"]_vars

\* the manager was disabled when it was elected and connected; since then it has been
\* disconnected and disposed, and the elected client has changed
C14_Witness ==
    /\ state = "Disabled"
    /\ ~smConnected /\ disposed
    /\ electedClientId \notin usedIds

\* C15: when summaries are disabled or the client is a summarizer client, the manager
\* never asks for a summarizer: it is Off or Disabled, the throttler has never been
\* asked for a delay, no creation is pending and no summarizer runs - also after the
\* manager has been elected again.
C15_NoCreationWhenDisabled ==
    (~summariesEnabled \/ isSummarizerClient) =>
        /\ state \in {"Off", "Disabled"}
        /\ calls = 0 /\ attempts = 0 /\ windowStart = NoWindow
        /\ ~runningSummarizer

\* summaries are disabled; the manager became Disabled on its first connection and is
\* now connected and elected on its second
C15_Witness ==
    /\ ~summariesEnabled /\ state = "Disabled"
    /\ smConnected /\ smClientId = electedClientId
    /\ Cardinality(usedIds) = 2
    /\ calls = 0

\* C16: shouldSummarize is true iff the manager is connected, its client id is the
\* elected one and it is not disposed; when it is false the reason is
\* parentNotConnected if the manager is not connected, else parentShouldNotSummarize
\* if its client id is not the elected one, else disposed.  A stop call carries the
\* reason of the moment.
C16_ShouldSummarize ==
    [][LET s == getShouldSummarizeState(smConnected', smClientId', electedClientId',
                                        disposed', members')
           why == IF ~smConnected' THEN "parentNotConnected"
                  ELSE IF smClientId' # electedClientId' THEN "parentShouldNotSummarize"
                  ELSE "disposed"
       IN  /\ s.shouldSummarize
                <=> (smConnected' /\ smClientId' = electedClientId' /\ ~disposed')
           /\ ~s.shouldSummarize => s.stopReason = why
           /\ stopCalls' > stopCalls => stopReason' = why]_vars

\* a disposed manager that is connected has been stopped because another client is
\* elected
C16_Witness ==
    /\ state = "Stopping" /\ stopCalls = 1
    /\ smConnected /\ disposed /\ smClientId # electedClientId
    /\ stopReason = "parentShouldNotSummarize"

\* C17: the manager never begins to spawn a summarizer (start() past its checks: the
\* throttler is asked for a delay and the state is Starting), from Off or through
\* tryRestart, while a summarizer client is a member of the quorum.
C17_NoStartWithSummarizerInQuorum ==
    [][(calls' # calls \/ (state # "Starting" /\ state' = "Starting"))
          => /\ state' = "Starting"
             /\ \A m \in members' : ~m.summarizer]_vars

\* a summarizer client joined the quorum before the local client did; the manager is
\* spawning its first summarizer with that client gone
C17_Witness ==
    /\ state = "Starting" /\ calls = 1
    /\ joined = {"s1", "p1"}
    /\ \E m \in members : m.id = "p1" /\ m.seq = 2
    /\ \A m \in members : ~m.summarizer

\* C21: the diagnostic about ops since the last acknowledgement is one-shot: between
\* two consecutive summary acks or changes of the elected client, at most one
\* "ElectedClientNotSummarizing" event is sent, however many ops beyond the threshold
\* are seen
C21_OneShotDiagnostic == diagnostics <= 1

\* C22: a creation that fails while the manager should summarize and should start is
\* followed at once by another start(), whatever the number of attempts so far: the
\* manager leaves Starting for Off only when it should no longer summarize or start;
\* every start() of an enabled manager ends in Starting, and it raises one warning
\* exactly when the throttle delay has reached the maximum
C22_RetryAfterFailure ==
    [][/\ (state = "Starting" /\ state' = "Off") => ~(ShouldSummarize /\ ShouldStart)
       /\ (state = "Starting" /\ calls' # calls)
            => /\ ShouldSummarize /\ ShouldStart
               /\ calls' = calls + 1
       /\ calls' # calls
            => /\ state' = "Starting"
               /\ warnings' = IF lastDelay' >= defaultThrottleMaxDelayMs
                              THEN warnings + 1 ELSE warnings]_vars

\* the eleventh start() within one window: the delay is the maximum, a warning has been
\* raised and the creation is under way
C22_Witness ==
    /\ state = "Starting"
    /\ attempts >= 11
    /\ lastDelay >= defaultThrottleMaxDelayMs
    /\ warnings >= 1

\* C32: a handler emits "summarizer" exactly when it changes the value of the summarizer
\* property (electedClientId): one event carrying the new value when the value changes,
\* and no event when the value stays, whatever else the handler does
C32_SummarizerEventOnChange ==
    [][/\ electedClientId' # electedClientId => emitted' = <<electedClientId'>>
       /\ electedClientId' = electedClientId => emitted' = <<>>]_vars

\* a client has just been elected in a quorum that two members have left
C32_Witness ==
    /\ emitted # <<>> /\ emitted[1] # NoClient
    /\ Cardinality(joined) > Cardinality(members) + 1
    /\ Cardinality(members) >= 1

\* C33: whenever the state is Running a running summarizer is recorded, so stop(), which
\* refreshSummarizer calls in state Running only and run() calls right after it has
\* recorded the summarizer, never finds runningSummarizer undefined
C33_RunningHasSummarizer == state = "Running" => runningSummarizer

\* stop() has been called in state Running and has stopped the recorded summarizer
C33_Witness ==
    /\ state = "Stopping" /\ prevState = "Running"
    /\ runningSummarizer /\ stopCalls = 1

\* C34: once dispose() has been called no handler calls start(): the throttler is not
\* asked for a delay again, and the manager enters neither Starting nor Disabled
C34_NoStartAfterDispose ==
    [][disposed => /\ calls' = calls
                   /\ state' = "Starting" => state = "Starting"
                   /\ state' = "Disabled" => state = "Disabled"]_vars

\* a disposed manager is Off after the creation of its summarizer has failed, although
\* it is connected and elected and no summarizer client is in the quorum
C34_Witness ==
    /\ disposed /\ state = "Off" /\ prevState = "Starting"
    /\ smConnected /\ smClientId = electedClientId
    /\ getSummarizerCount(members) = 0

\* C38: a summarizer that has been created and has not exited exists only in the states
\* Running and Stopping. A creation is pending in state Starting and in no other state,
\* so no creation is pending while a summarizer exists, and start() is not called while
\* one exists: at most one creation or one summarizer at a time.
C38_OneSummarizerAtATime == runningSummarizer => state \in {"Running", "Stopping"}

\* the second creation is pending: the summarizer of the first one was stopped and has
\* exited
C38_Witness ==
    /\ state = "Starting" /\ prevState = "Stopping"
    /\ ~runningSummarizer /\ calls = 2

====
